---- MODULE Spec2Model ----
(***************************************************************************)
(* A model of the OpenAlex retriever: the cross-entity merge               *)
(* (core/processors.py, deduplicate_publications_optimized), the per-      *)
(* entity fetch (fetch_publications_parallel, fetch_single_doc_type), the  *)
(* rate-limited HTTP client (core/api_client.py, rate_limited_get) and the *)
(* aggregation run (ui/common.py, retrieve_publications).                  *)
(*                                                                         *)
(* Strings are sequences of character codes, so that strip(), sorted()     *)
(* and " | ".join() are computed and not assumed.                          *)
(***************************************************************************)
EXTENDS Integers, Sequences, FiniteSets, TLC

VARIABLES
    \* ---- deduplicate_publications_optimized (processors.py:134-183)
    all_publications,   \* the argument: a list of projected rows
    dd_idx,             \* position of the loop of line 143 (next row to read)
    seen,               \* the dict of line 141, in insertion order
    dd_result,          \* the list returned (line 183)
    dd_pc               \* "idle" | "loop" | "done"

VARIABLES
    \* ---- rate_limited_get (api_client.py:47-97) and the global limiter
    elapsed,            \* time.time() - _last_request_time (lines 25, 64-65)
    rate_lock,          \* _rate_lock (line 26): its holder, 0 when free
    th,                 \* per calling thread: the locals of its call
    faults              \* history: the answers other than 200 given so far

VARIABLES
    \* ---- fetch_publications_parallel and fetch_single_doc_type
    \*      (processors.py:188-361), against a server
    cfg,                \* the arguments of fetch_publications_parallel
    srv_total,          \* per stream: the works that match its filter
    st,                 \* per stream: the locals of fetch_single_doc_type
    ent_pubs,           \* all_publications of line 292
    ent_unique,         \* the list returned (line 361)
    ent_pc              \* "idle" | "fetching" | "done"

VARIABLES
    \* ---- retrieve_publications (ui/common.py:272-424)
    run_cfg,            \* the selected entities and the configuration
    jobs,               \* per entity: its future and the locals of job()
    run_pubs,           \* all_publications of line 327
    run_done,           \* done of line 328
    run_pc,             \* where the caller's thread is
    run_result,         \* the merged rows that are exported
    run_limiter         \* "default" | "set": set_rate_limit was called

VARIABLES
    \* ---- process_publications_batch (processors.py:46-129)
    pj_results,         \* results: the raw records of a page
    pj_entity,          \* entity_id, entity_name, entity_type
    pj_selected,        \* selected_metadata
    pj_idx,             \* the record the loop of line 60 is at
    pj_publications,    \* publications of line 58
    pj_pc               \* "idle" | "loop" | "returned" | "raised"

VARIABLES
    \* ---- _fetch_candidates_for_one (ui/authors.py:137-152)
    cd_answer,          \* what the author search is answered
    cd_matches,         \* matches
    cd_idx,             \* the match the loop of line 144 is at
    cd_candidates,      \* candidates
    cd_pc               \* "idle" | "search" | "build" | "sort" | "returned"

VARIABLES
    \* ---- clean_text_field (formatters.py:10-20)
    ct_text,            \* the text given
    ct_out,             \* what the calls returned, one after the other
    ct_pc               \* "idle" | "clean" | "done"

VARIABLES
    \* ---- prefetch_author_candidates_parallel (ui/authors.py:154-199)
    pf_rows, \* the names of the rows of the file
    pf_jobs, \* the job of each row: its place and its session
    pf_pc \* "idle" | "pool" | "done"

VARIABLES
    \* ---- render_config_section (ui/common.py:94-217)
    cf_config,  \* st.session_state.config
    cf_form,    \* the mirrors cfg_start_year, cfg_end_year, cfg_doc_types
    cf_msg      \* "idle" | "none" | "error" | "success": the last submission

VARIABLES
    \* ---- the selection of entities (app.py, ui/landing.py,
    \* ui/institutions.py, ui/authors.py)
    selection_mode,     \* "idle" | "None" | "institutions" | "authors"
    selected_entities,  \* st.session_state.selected_entities
    results_df,         \* the openalex_id of the rows the search shows
    author_candidates   \* the candidates of each name, as they were put

ddVars == <<all_publications, dd_idx, seen, dd_result, dd_pc>>
pjVars == <<pj_results, pj_entity, pj_selected, pj_idx, pj_publications, pj_pc>>
rnVars == <<run_cfg, jobs, run_pubs, run_done, run_pc, run_result, run_limiter>>
ftVars == <<cfg, srv_total, st, ent_pubs, ent_unique, ent_pc>>
clVars == <<elapsed, rate_lock, th, faults>>
cdVars == <<cd_answer, cd_matches, cd_idx, cd_candidates, cd_pc>>
ctVars == <<ct_text, ct_out, ct_pc>>

pfVars == <<pf_rows, pf_jobs, pf_pc>>
cfVars == <<cf_config, cf_form, cf_msg>>
uiVars == <<selection_mode, selected_entities, results_df, author_candidates>>

vars ==
    <<ddVars, clVars, ftVars, rnVars, pjVars, cdVars, ctVars, pfVars,
      cfVars, uiVars>>

\* what an action of one component leaves alone
notDedup ==
    <<clVars, ftVars, rnVars, pjVars, cdVars, ctVars, pfVars, cfVars,
      uiVars>>
notClient ==
    <<ddVars, ftVars, rnVars, pjVars, cdVars, ctVars, pfVars, cfVars,
      uiVars>>
notFetch ==
    <<ddVars, clVars, rnVars, pjVars, cdVars, ctVars, pfVars, cfVars,
      uiVars>>
notRun ==
    <<ddVars, clVars, ftVars, pjVars, cdVars, ctVars, pfVars, cfVars,
      uiVars>>
notProject ==
    <<ddVars, clVars, ftVars, rnVars, cdVars, ctVars, pfVars, cfVars,
      uiVars>>
notCandidates ==
    <<ddVars, clVars, ftVars, rnVars, pjVars, ctVars, pfVars, cfVars,
      uiVars>>
notClean ==
    <<ddVars, clVars, ftVars, rnVars, pjVars, cdVars, pfVars, cfVars,
      uiVars>>
notPrefetch ==
    <<ddVars, clVars, ftVars, rnVars, pjVars, cdVars, ctVars, cfVars,
      uiVars>>
notConfig ==
    <<ddVars, clVars, ftVars, rnVars, pjVars, cdVars, ctVars, pfVars,
      uiVars>>
notSelection ==
    <<ddVars, clVars, ftVars, rnVars, pjVars, cdVars, ctVars, pfVars,
      cfVars>>

-----------------------------------------------------------------------------
(* Strings *)

Range(f) == {f[i] : i \in DOMAIN f}

\* str.strip() removes leading and trailing whitespace
IsSpace(c) == c \in {9, 10, 11, 12, 13, 32}

RECURSIVE LStrip(_)
LStrip(s) == IF s # <<>> /\ IsSpace(Head(s)) THEN LStrip(Tail(s)) ELSE s

RECURSIVE RStrip(_)
RStrip(s) ==
    IF s # <<>> /\ IsSpace(s[Len(s)]) THEN RStrip(SubSeq(s, 1, Len(s) - 1)) ELSE s

Strip(s) == RStrip(LStrip(s))

\* Python's order on str: lexicographic by code point
RECURSIVE StrLess(_, _)
StrLess(a, b) ==
    IF a = <<>> THEN b # <<>>
    ELSE IF b = <<>> THEN FALSE
    ELSE IF Head(a) = Head(b) THEN StrLess(Tail(a), Tail(b))
    ELSE Head(a) < Head(b)

\* sorted(S) for a collection of distinct strings
RECURSIVE Sorted(_)
Sorted(S) ==
    IF S = {} THEN <<>>
    ELSE LET m == CHOOSE x \in S : \A y \in S \ {x} : StrLess(x, y)
         IN  <<m>> \o Sorted(S \ {m})

\* the separator " | " of lines 177-179
PipeSep == <<32, 124, 32>>

\* sep.join(list)
RECURSIVE Join(_, _)
Join(sep, list) ==
    IF list = <<>> THEN <<>>
    ELSE IF Len(list) = 1 THEN list[1]
    ELSE list[1] \o sep \o Join(sep, Tail(list))

\* str.split(sep): the pieces between the occurrences of sep ("" gives [""])
RECURSIVE Split(_, _)
Split(s, sep) ==
    LET n == Len(sep)
        hits == {i \in 1..(Len(s) - n + 1) : SubSeq(s, i, i + n - 1) = sep}
    IN  IF hits = {} THEN <<s>>
        ELSE LET i == CHOOSE h \in hits : \A g \in hits : h <= g
             IN  <<SubSeq(s, 1, i - 1)>> \o Split(SubSeq(s, i + n, Len(s)), sep)

-----------------------------------------------------------------------------
(* Projected rows: the inputs of the merge *)

\* the longest list of rows handed to the merge
MaxRows == 3

EmptyStr == <<>>
W1 == <<87, 49>>                          \* "W1"
W2 == <<87, 50>>                          \* "W2"
LabelA == <<97>>                          \* "a"
LabelB == <<98>>                          \* "b"
LabelBPadded == <<98, 32>>                \* "b "
LabelX == <<120>>                         \* "x"
LabelY == <<121>>                         \* "y"
First == <<70, 105, 114, 115, 116>>       \* "First"
Middle == <<77, 105, 100, 100, 108, 101>> \* "Middle"
Last == <<76, 97, 115, 116>>              \* "Last"

\* a row as process_publications_batch builds it (lines 61-71, 125)
Row(id, inst, author, position) ==
    [id |-> id, institutions_extracted |-> inst,
     authors_extracted |-> author, position_extracted |-> position]

InstitutionRow(id, label) == Row(id, label, EmptyStr, EmptyStr)
AuthorRow(id, label, position) == Row(id, EmptyStr, label, position)

\* the rows the merge is tried on: every stamp on work W1, and enough on W2
\* and on a row without id to exercise the grouping and the skip of line 145
RowSet ==
    {InstitutionRow(W1, l) : l \in {LabelA, LabelB, LabelBPadded}}
    \cup {AuthorRow(W1, LabelX, p) : p \in {EmptyStr, First, Last}}
    \cup {AuthorRow(W1, LabelY, Middle)}
    \cup {InstitutionRow(W2, LabelA), AuthorRow(W2, LabelX, First)}
    \cup {InstitutionRow(EmptyStr, LabelA)}

RowLists == UNION {[1..n -> RowSet] : n \in 0..MaxRows}

-----------------------------------------------------------------------------
(* deduplicate_publications_optimized *)

EmptyDict == [l \in {} |-> EmptyStr]

\* seen.get(pub_id): the position of the entry of that key, 0 for None
FindKeyNever(s, k) == 0

FindKey(s, k) ==
    IF \E i \in 1..Len(s) : s[i].key = k
    THEN CHOOSE i \in 1..Len(s) : s[i].key = k
    ELSE 0

\* lines 150-155
NewEntry(pub) ==
    [key |-> pub.id, data |-> pub, institutions |-> {},
     author_positions |-> EmptyDict]

\* lines 157-166: fold one row into the entry of its work
MergeRowLastInstitution(entry, pub) ==
    LET inst == Strip(pub.institutions_extracted)
        author_label == Strip(pub.authors_extracted)
        position == Strip(pub.position_extracted)
        ap == entry.author_positions
    IN  [entry EXCEPT
            !.institutions = IF inst # EmptyStr THEN {inst} ELSE @,
            !.author_positions =
                IF author_label # EmptyStr
                   /\ (author_label \notin DOMAIN ap \/ ap[author_label] = EmptyStr)
                THEN (author_label :> position) @@ ap
                ELSE ap]

\* as MergeRow, but the position of a later row takes the place of the
\* recorded one
MergeRowLastPosition(entry, pub) ==
    LET inst == Strip(pub.institutions_extracted)
        author_label == Strip(pub.authors_extracted)
        position == Strip(pub.position_extracted)
        ap == entry.author_positions
    IN  [entry EXCEPT
            !.institutions = IF inst # EmptyStr THEN @ \cup {inst} ELSE @,
            !.author_positions =
                IF author_label # EmptyStr
                THEN (author_label :> position) @@ ap
                ELSE ap]

MergeRow(entry, pub) ==
    LET inst == Strip(pub.institutions_extracted)
        author_label == Strip(pub.authors_extracted)
        position == Strip(pub.position_extracted)
        ap == entry.author_positions
    IN  [entry EXCEPT
            !.institutions = IF inst # EmptyStr THEN @ \cup {inst} ELSE @,
            !.author_positions =
                IF author_label # EmptyStr
                   /\ (author_label \notin DOMAIN ap \/ ap[author_label] = EmptyStr)
                THEN (author_label :> position) @@ ap
                ELSE ap]

\* lines 143-166: one pass of the loop body
DedupStep(s, pub) ==
    IF pub.id = EmptyStr THEN s
    ELSE LET k == FindKey(s, pub.id)
             s1 == IF k = 0 THEN Append(s, NewEntry(pub)) ELSE s
             k1 == IF k = 0 THEN Len(s1) ELSE k
         IN  [s1 EXCEPT ![k1] = MergeRow(@, pub)]

\* lines 171-179: the merged row of one entry
BuildRowDropEmpty(item) ==
    LET inst_list == Sorted({i \in item.institutions : i # EmptyStr})
        author_labels == Sorted(DOMAIN item.author_positions)
        positions == [i \in 1..Len(author_labels) |->
                         item.author_positions[author_labels[i]]]
    IN  [item.data EXCEPT
            !.institutions_extracted = Join(PipeSep, inst_list),
            !.authors_extracted = Join(PipeSep, author_labels),
            !.position_extracted =
                Join(PipeSep, SelectSeq(positions, LAMBDA p : p # EmptyStr))]

BuildRow(item) ==
    LET inst_list == Sorted({i \in item.institutions : i # EmptyStr})
        author_labels == Sorted(DOMAIN item.author_positions)
        positions == [i \in 1..Len(author_labels) |->
                         item.author_positions[author_labels[i]]]
    IN  [item.data EXCEPT
            !.institutions_extracted = Join(PipeSep, inst_list),
            !.authors_extracted = Join(PipeSep, author_labels),
            !.position_extracted = Join(PipeSep, positions)]

\* lines 169-183
BuildRows(s) == [i \in 1..Len(s) |-> BuildRow(s[i])]

\* the whole function, for callers that use it in one step
RECURSIVE DedupFold(_, _)
DedupFold(s, pubs) ==
    IF pubs = <<>> THEN s ELSE DedupFold(DedupStep(s, Head(pubs)), Tail(pubs))

deduplicate_publications_optimized(pubs) == BuildRows(DedupFold(<<>>, pubs))

DedupIdle ==
    /\ all_publications = <<>>
    /\ dd_idx = 0
    /\ seen = <<>>
    /\ dd_result = <<>>
    /\ dd_pc = "idle"

DedupInit ==
    /\ all_publications \in RowLists
    /\ dd_idx = 1
    /\ seen = <<>>
    /\ dd_result = <<>>
    /\ dd_pc = "loop"

\* line 143: for pub in all_publications
DedupLoop ==
    /\ dd_pc = "loop"
    /\ dd_idx <= Len(all_publications)
    /\ seen' = DedupStep(seen, all_publications[dd_idx])
    /\ dd_idx' = dd_idx + 1
    /\ UNCHANGED <<all_publications, dd_result, dd_pc>>
    /\ UNCHANGED notDedup

\* lines 169-183: the loop is over; build and return the rows
DedupBuild ==
    /\ dd_pc = "loop"
    /\ dd_idx > Len(all_publications)
    /\ dd_result' = BuildRows(seen)
    /\ dd_pc' = "done"
    /\ UNCHANGED <<all_publications, dd_idx, seen>>
    /\ UNCHANGED notDedup

NextDedup == DedupLoop \/ DedupBuild

-----------------------------------------------------------------------------
(* rate_limited_get and the global limiter (core/api_client.py) *)

\* times are in ticks of 0.05 s
PUBLICATIONS_DELAY == 2
AUTHORS_DELAY == 4
RETRY_AFTER_429 == 40
\* the default of the parameter max_retries, which no caller overrides
MAX_RETRIES == 3

\* the threads that may call the client at the same time
MaxThreads == 2
\* the answers other than 200 the server gives in one run
MaxFaults == 4

Threads == 1..MaxThreads

\* what session.get gives: a status, or an exception of requests
NetError == "RequestException"
Answers == {"200", "429", "503", NetError}

\* the result of a call: a response (its status) or None
NoResult == "pending"
ResultNone == "None"

\* The clock is kept relative: elapsed is time.time() - _last_request_time,
\* and every sleeping thread has the time left of its sleep. An elapsed time
\* of LongAgo stands for LongAgo or more: line 66 compares it with a delay
\* only, and no delay is longer.
LongAgo == AUTHORS_DELAY

Min(a, b) == IF a < b THEN a ELSE b
Max(a, b) == IF a > b THEN a ELSE b

ThreadIdle ==
    [pc |-> "idle", delay |-> 0, retries |-> 0, backoff |-> 0, left |-> 0,
     result |-> NoResult, attempts |-> 0, transient |-> {}, wait |-> 0,
     last |-> "none", passes |-> 0, callbacks |-> <<>>]

\* lines 64-67: how long the throttle step sleeps
ThrottleSleepNone(elapsed_time, delay) == 0

ThrottleSleep(elapsed_time, delay) ==
    IF elapsed_time < delay THEN delay - elapsed_time ELSE 0

\* line 89: backoff * (0.5 + 0.5 * random.random()), random() in [0, 1)
JitteredWaits(backoff) == {backoff \div 2, backoff - 1}

\* lines 70-97: what one answer does to the call. next is "return" (with
\* result), "sleep" (one of waits, then double the backoff and loop) or
\* "loop" (straight back to the loop test of line 61)
AfterAnswerNoGiveUp(retries, backoff, ans) ==
    IF ans \in {NetError, "429"}
    THEN [retries |-> retries + 1, next |-> "sleep", result |-> NoResult,
          waits |-> {backoff}]
    ELSE [retries |-> retries, next |-> "return", result |-> ans, waits |-> {}]

\* as AfterAnswer, but None once the retries are used up on a 429
AfterAnswerNoneOn429(retries, backoff, ans) ==
    IF ans \in {NetError, "429"}
    THEN IF retries + 1 <= MAX_RETRIES
         THEN [retries |-> retries + 1, next |-> "sleep", result |-> NoResult,
               waits |-> IF ans = "429" THEN JitteredWaits(backoff) ELSE {backoff}]
         ELSE [retries |-> retries + 1, next |-> "loop", result |-> NoResult,
               waits |-> {}]
    ELSE [retries |-> retries, next |-> "return", result |-> ans, waits |-> {}]

\* as AfterAnswer, but every status other than 200 is retried as 429 is
AfterAnswerRetryAll(retries, backoff, ans) ==
    IF ans = NetError
    THEN IF retries + 1 <= MAX_RETRIES
         THEN [retries |-> retries + 1, next |-> "sleep", result |-> NoResult,
               waits |-> {backoff}]
         ELSE [retries |-> retries + 1, next |-> "loop", result |-> NoResult,
               waits |-> {}]
    ELSE IF ans = "200"
    THEN [retries |-> retries, next |-> "return", result |-> ans, waits |-> {}]
    ELSE IF retries + 1 > MAX_RETRIES
         THEN [retries |-> retries + 1, next |-> "return", result |-> ans,
               waits |-> {}]
         ELSE [retries |-> retries + 1, next |-> "sleep", result |-> NoResult,
               waits |-> JitteredWaits(backoff)]

AfterAnswer(retries, backoff, ans) ==
    IF ans = NetError
    THEN IF retries + 1 <= MAX_RETRIES
         THEN [retries |-> retries + 1, next |-> "sleep", result |-> NoResult,
               waits |-> {backoff}]
         ELSE [retries |-> retries + 1, next |-> "loop", result |-> NoResult,
               waits |-> {}]
    ELSE IF ans = "200"
    THEN [retries |-> retries, next |-> "return", result |-> ans, waits |-> {}]
    ELSE IF ans = "429"
    THEN IF retries + 1 > MAX_RETRIES
         THEN [retries |-> retries + 1, next |-> "return", result |-> ans,
               waits |-> {}]
         ELSE [retries |-> retries + 1, next |-> "sleep", result |-> NoResult,
               waits |-> JitteredWaits(backoff)]
    ELSE [retries |-> retries, next |-> "return", result |-> ans, waits |-> {}]

\* as LoopTest, but a retry goes straight to session.get
LoopTestRetryUnthrottled(c) ==
    IF c.retries <= MAX_RETRIES
    THEN [c EXCEPT !.pc = IF c.attempts = 0 THEN "acquire" ELSE "send"]
    ELSE [c EXCEPT !.pc = "done", !.result = ResultNone]

\* line 61: while retries <= max_retries, and line 97 when it fails
LoopTest(c) ==
    IF c.retries <= MAX_RETRIES
    THEN [c EXCEPT !.pc = "acquire"]
    ELSE [c EXCEPT !.pc = "done", !.result = ResultNone]

ClientIdle ==
    /\ elapsed = 0
    /\ rate_lock = 0
    /\ th = [t \in Threads |-> ThreadIdle]
    /\ faults = 0

\* _last_request_time is 0.0 (line 25) and time.time() is far beyond it when
\* the process starts
ClientInit ==
    /\ elapsed = LongAgo
    /\ rate_lock = 0
    /\ th = [t \in Threads |-> ThreadIdle]
    /\ faults = 0

\* lines 47-59: a thread calls rate_limited_get with its delay. The threads
\* are alike, so they call in the order of their numbers; the callers of one
\* run pass the same delay (that of fetch_works_page, line 125, or that of
\* search_author_by_name, line 109)
Call(t) ==
    /\ th[t].pc = "idle"
    /\ \A u \in Threads : u < t => th[u].pc # "idle"
    /\ \E d \in {PUBLICATIONS_DELAY, AUTHORS_DELAY} :
          /\ \A u \in Threads : u < t => th[u].delay = d
          /\ th' = [th EXCEPT ![t] =
                       LoopTest([ThreadIdle EXCEPT !.delay = d,
                                                   !.backoff = RETRY_AFTER_429])]
    /\ UNCHANGED <<elapsed, rate_lock, faults>>
    /\ UNCHANGED notClient

\* as Acquire, but without waiting for the lock
AcquireUnlocked(t) ==
    /\ th[t].pc = "acquire"
    /\ rate_lock' = t
    /\ th' = [th EXCEPT ![t].pc = "throttle",
                        ![t].left = ThrottleSleep(elapsed, th[t].delay)]
    /\ UNCHANGED <<elapsed, faults>>
    /\ UNCHANGED notClient

\* lines 63-67: take the lock, read the clock, decide how long to sleep
Acquire(t) ==
    /\ th[t].pc = "acquire"
    /\ rate_lock = 0
    /\ rate_lock' = t
    /\ th' = [th EXCEPT ![t].pc = "throttle",
                        ![t].left = ThrottleSleep(elapsed, th[t].delay)]
    /\ UNCHANGED <<elapsed, faults>>
    /\ UNCHANGED notClient

\* line 68 and the end of the with block: stamp and release
Stamp(t) ==
    /\ th[t].pc = "throttle"
    /\ rate_lock = t
    /\ th[t].left = 0
    /\ elapsed' = 0
    /\ rate_lock' = 0
    /\ th' = [th EXCEPT ![t].pc = "send", ![t].passes = @ + 1]
    /\ UNCHANGED faults
    /\ UNCHANGED notClient

\* lines 70-95: session.get returns or raises, and the call reacts
Attempt(t) ==
    /\ th[t].pc = "send"
    /\ \E ans \in Answers :
          /\ ans # "200" => faults < MaxFaults
          /\ faults' = IF ans # "200" THEN faults + 1 ELSE faults
          /\ LET r == AfterAnswer(th[t].retries, th[t].backoff, ans)
                 c == [th[t] EXCEPT
                          !.retries = r.retries,
                          !.attempts = @ + 1,
                          !.last = ans,
                          !.transient = IF r.retries = th[t].retries
                                        THEN @ ELSE @ \cup {ans}]
             IN  CASE r.next = "return" ->
                        th' = [th EXCEPT ![t] =
                                  [c EXCEPT !.pc = "done", !.result = r.result]]
                   [] r.next = "loop" ->
                        th' = [th EXCEPT ![t] = LoopTest(c)]
                   [] r.next = "sleep" ->
                        \E w \in r.waits :
                            th' = [th EXCEPT ![t] =
                                      [c EXCEPT !.pc = "backoff", !.left = w,
                                                !.wait = w]]
    /\ UNCHANGED <<elapsed, rate_lock>>
    /\ UNCHANGED notClient

\* as WakeUp, but the backoff stays as it is
WakeUpSameBackoff(t) ==
    /\ th[t].pc = "backoff"
    /\ th[t].left = 0
    /\ th' = [th EXCEPT ![t] = LoopTest([th[t] EXCEPT !.wait = 0])]
    /\ UNCHANGED <<elapsed, rate_lock, faults>>
    /\ UNCHANGED notClient

\* lines 75-77 and 90-92: the sleep is over; double the backoff and loop
WakeUp(t) ==
    /\ th[t].pc = "backoff"
    /\ th[t].left = 0
    /\ th' = [th EXCEPT ![t] =
                 LoopTest([th[t] EXCEPT !.backoff = 2 * @, !.wait = 0])]
    /\ UNCHANGED <<elapsed, rate_lock, faults>>
    /\ UNCHANGED notClient

\* A sleep of the throttle step is counted tick by tick. A backoff sleep is
\* 10 to 160 ticks long and sleep() may return late: it is counted in Elapse
\* only, from one wake-up time to the next.

\* one tick passes; followed tick by tick while line 66 can tell
Tick ==
    /\ elapsed < LongAgo
    /\ elapsed' = elapsed + 1
    /\ th' = [t \in Threads |->
                 IF th[t].pc = "throttle" THEN [th[t] EXCEPT !.left = Max(@ - 1, 0)]
                 ELSE th[t]]
    /\ UNCHANGED <<rate_lock, faults>>
    /\ UNCHANGED notClient

\* time passes until the backoff sleep of a thread is over
Elapse ==
    /\ \E t \in Threads :
          /\ th[t].pc = "backoff"
          /\ th[t].left > 0
          /\ elapsed' = Min(elapsed + th[t].left, LongAgo)
          /\ th' = [u \in Threads |-> [th[u] EXCEPT !.left = Max(@ - th[t].left, 0)]]
    /\ UNCHANGED <<rate_lock, faults>>
    /\ UNCHANGED notClient

\* api_client.py:125-134 and processors.py:216-218, 236-239: the call was
\* that of fetch_works_page for a stream with a request_callback; the page
\* is a success when the response is a 200 whose body parses, and the
\* callback is told
PageReport(t) ==
    /\ th[t].pc = "done"
    /\ th[t].delay = PUBLICATIONS_DELAY
    /\ \E parses \in BOOLEAN :
          th' = [th EXCEPT ![t].pc = "reported",
                           ![t].callbacks =
                               Append(@, th[t].result = "200" /\ parses)]
    /\ UNCHANGED <<elapsed, rate_lock, faults>>
    /\ UNCHANGED notClient

NextClient ==
    \/ \E t \in Threads : Call(t)
    \/ \E t \in Threads : Acquire(t)
    \/ \E t \in Threads : Stamp(t)
    \/ \E t \in Threads : Attempt(t)
    \/ \E t \in Threads : WakeUp(t)
    \/ Tick
    \/ Elapse

-----------------------------------------------------------------------------
(* fetch_works_page, fetch_single_doc_type, fetch_publications_parallel *)

PER_PAGE == 50
PAGE_CAP == 200
MAX_WORKERS == 3

\* the document types an entity is fetched for: the first n of this list
MaxDocTypes == 2
\* a single stream has up to MaxPages full pages, or as many as PAGE_CAP
MaxPages == 3
\* streams that run side by side have up to MaxSmallPages full pages
MaxSmallPages == 1
\* the server fails within the first MaxFlakyPage pages of a stream only,
\* and MaxFailures times in one fetch
MaxFlakyPage == 3
MaxFailures == 1
\* the works of the s-th stream are numbered from (s - 1) * IdShift + 1, so
\* that the streams of two document types overlap
IdShift == 30

DOCUMENT_TYPES ==
    <<"article", "book-chapter", "dataset", "preprint", "dissertation", "book">>

Totals ==
    {n * PER_PAGE + r : n \in 0..MaxPages, r \in {0, 1}}
    \cup {PAGE_CAP * PER_PAGE + r : r \in {0, 1}}

SmallTotals == {0} \cup {n * PER_PAGE + 1 : n \in 0..MaxSmallPages}

\* one stream per document type, a single one when there is none
NStreams(c) == IF c.doc_types = <<>> THEN 1 ELSE Len(c.doc_types)
Streams == 1..NStreams(cfg)
DocTypeOf(c, s) == IF c.doc_types = <<>> THEN "None" ELSE c.doc_types[s]

\* common.py:125: the choices of the language radio button
LANGUAGE_CHOICES == {"All Languages", "English Only"}

\* common.py:304: the language_filter argument for a choice
LangFilter(choice) ==
    IF choice = "English Only" THEN "english_only" ELSE "all_languages"

\* lines 279-291: the predicates of base_filter_str, which are joined by ","
EntityFilter(c) ==
    IF c.entity_type = "institution"
    THEN [key |-> "authorships.institutions.id", value |-> c.entity_id]
    ELSE [key |-> "authorships.author.id", value |-> c.entity_id]

BaseFilterNoLanguage(c) ==
    <<EntityFilter(c), [key |-> "publication_year", value |-> "start-end"]>>

BaseFilter(c) ==
    <<EntityFilter(c), [key |-> "publication_year", value |-> "start-end"]>>
    \o (IF c.language_filter = "english_only"
        THEN <<[key |-> "language", value |-> "en"]>> ELSE <<>>)

StreamFilterNoType(base_filter_str, doc_type) == base_filter_str

\* line 207
StreamFilter(base_filter_str, doc_type) ==
    IF doc_type # "None"
    THEN Append(base_filter_str, [key |-> "type", value |-> doc_type])
    ELSE base_filter_str

\* lines 208-212 and 235: the query parameters of a page request
FirstParams(filter_str) ==
    ("filter" :> filter_str) @@ ("per_page" :> PER_PAGE) @@ ("mailto" :> "MAILTO")

PageParams(filter_str, page) == ("page" :> page) @@ FirstParams(filter_str)

\* --- the server: the works of a stream, a page of them at a time
Offset(s) == (s - 1) * IdShift

\* the page asked for ("page" absent: the first), as the records first..last
\* in the copy the server made of them for this stream; an empty page has
\* last < first
ServerPage(s, params) ==
    LET page == IF "page" \in DOMAIN params THEN params["page"] ELSE 1
        size == params["per_page"]
    IN  [first |-> Offset(s) + (page - 1) * size + 1,
         last |-> Offset(s) + Min(page * size, srv_total[s]),
         copy |-> s]

\* meta.next_cursor: a token only when the request asked with a cursor
ServerNextCursor(s, params) ==
    IF "cursor" \in DOMAIN params THEN "token" ELSE "null"

\* how the server treats the attempts of one page request: it answers `with`
\* to the first `fails` attempts and `final` afterwards; a final "200" comes
\* with a body that decodes or not
Behaviours ==
    [fails : 0..(MAX_RETRIES + 1), with : {"429", NetError},
     final : {"200", "503"}, body : {"json", "garbage"}]

AnswerAt(b, attempt) == IF attempt <= b.fails THEN b.with ELSE b.final

\* rate_limited_get (api_client.py:47-97) as a function of the answers:
\* the response status, or None
RECURSIVE rate_limited_get(_, _, _, _)
rate_limited_get(b, attempt, retries, backoff) ==
    IF retries > MAX_RETRIES THEN ResultNone
    ELSE LET r == AfterAnswer(retries, backoff, AnswerAt(b, attempt))
         IN  IF r.next = "return" THEN r.result
             ELSE rate_limited_get(b, attempt + 1, r.retries,
                                   IF r.next = "sleep" THEN 2 * backoff ELSE backoff)

\* fetch_works_page (api_client.py:120-134): success_flag
PageSucceeds(b) ==
    LET resp == rate_limited_get(b, 1, 0, RETRY_AFTER_429)
    IN  /\ resp # ResultNone
        /\ resp = "200"
        /\ b.body = "json"

\* the success flags a page request can come back with
PageOutcomes == {PageSucceeds(b) : b \in Behaviours}

\* process_publications_batch (lines 46-129) on a page of records: a row per
\* record, in order. The rows of one entity carry the same stamp, so a row
\* is written as the number of its work and the copy it was made of, and a
\* page of rows as first..last; the rows have the key "id" when the field
\* is selected (lines 73-75)
process_publications_batch(results) ==
    IF results.last < results.first THEN <<>>
    ELSE <<[first |-> results.first, last |-> results.last,
            copy |-> results.copy,
            keyed |-> \E i \in DOMAIN cfg.selected_metadata :
                          cfg.selected_metadata[i] = "id"]>>

\* lines 237-239: what a page adds to the stream's rows
ExtendPublicationsOrDrop(publications, success, batch) ==
    IF success THEN publications \o batch ELSE <<>>

ExtendPublications(publications, success, batch) ==
    IF success THEN publications \o batch ELSE publications

\* line 231
TotalPages(total_count) ==
    Min((total_count + PER_PAGE - 1) \div PER_PAGE, PAGE_CAP)

StreamIdle ==
    [pc |-> "ready", filter_str |-> <<>>, page |-> 0, total_pages |-> 0,
     publications |-> <<>>, requests |-> <<>>, session |-> "none"]

\* the failed page requests of the fetch so far
RECURSIVE CountFailed(_)
CountFailed(S) ==
    IF S = {} THEN 0
    ELSE LET s == CHOOSE x \in S : TRUE
         IN  Cardinality({i \in 1..Len(st[s].requests) : ~st[s].requests[i].ok})
             + CountFailed(S \ {s})

\* the server may fail this page request
MayFail(page) == page <= MaxFlakyPage /\ CountFailed(Streams) < MaxFailures

\* lines 312-313, 339: the streams run on a pool of min(MAX_WORKERS, n)
\* threads in the order of submission when no callback is given, one after
\* the other (each collected before the next starts) when one is
\* as Sequential, but the callbacks are not looked at
SequentialAllWorksOnly(c) == c.doc_types = <<>>

Sequential(c) == c.doc_types = <<>> \/ c.callbacks

Running == {s \in Streams : st[s].pc \in {"first", "pages"}}

MayStart(s) ==
    /\ st[s].pc = "ready"
    /\ \A u \in Streams : u < s => st[u].pc # "ready"
    /\ IF Sequential(cfg)
       THEN \A u \in Streams : u < s => st[u].pc = "collected"
       ELSE Cardinality(Running) < Min(MAX_WORKERS, Len(cfg.doc_types))

FetchIdle ==
    /\ cfg = [doc_types |-> <<>>, callbacks |-> FALSE, entity_id |-> "",
              entity_type |-> "", language |-> "", language_filter |-> "",
              session |-> "none", max_workers |-> 0,
              selected_metadata |-> <<>>]
    /\ srv_total = <<>>
    /\ st = <<>>
    /\ ent_pubs = <<>>
    /\ ent_unique = <<>>
    /\ ent_pc = "idle"

\* the call of fetch_publications_parallel, and the server it meets
FetchInit ==
    /\ \E n \in 0..MaxDocTypes, cb \in BOOLEAN,
          et \in {"institution", "author"},
          lang \in LANGUAGE_CHOICES :
          cfg = [doc_types |-> SubSeq(DOCUMENT_TYPES, 1, n), callbacks |-> cb,
                 entity_id |-> "e1", entity_type |-> et, language |-> lang,
                 language_filter |-> LangFilter(lang),
                 session |-> "session of e1", max_workers |-> 10,
                 selected_metadata |-> <<"id", "doi">>]
    /\ srv_total \in [Streams -> IF NStreams(cfg) = 1 THEN Totals ELSE SmallTotals]
    /\ st = [s \in Streams |-> StreamIdle]
    /\ ent_pubs = <<>>
    /\ ent_unique = <<>>
    /\ ent_pc = "fetching"

\* the document types of a fetch that fills the pool of its streams: up to
\* one more than the pool has threads
PoolTypes == 0..(MAX_WORKERS + 1)

\* common.py:87, 194: "Max workers per entity" as it is configured: the
\* least value of the slider, MAX_WORKERS and the default
ConfiguredWorkers == {1, MAX_WORKERS, 10}

\* the call of fetch_publications_parallel for up to four document
\* types, of one or two pages each, under a configuration of the workers
\* and for a selection of fields with the id or without
FetchInitPools ==
    /\ \E n \in PoolTypes, cb \in BOOLEAN, mw \in ConfiguredWorkers,
          sel \in {<<"id", "doi">>, <<"doi">>} :
          cfg = [doc_types |-> SubSeq(DOCUMENT_TYPES, 1, n), callbacks |-> cb,
                 entity_id |-> "e1", entity_type |-> "institution",
                 language |-> "All Languages",
                 language_filter |-> LangFilter("All Languages"),
                 session |-> "session of e1", max_workers |-> mw,
                 selected_metadata |-> sel]
    /\ srv_total \in [Streams -> {1, PER_PAGE + 1}]
    /\ st = [s \in Streams |-> StreamIdle]
    /\ ent_pubs = <<>>
    /\ ent_unique = <<>>
    /\ ent_pc = "fetching"

\* lines 207-214: fetch_single_doc_type is entered, with the session that
\* fetch_publications_parallel was given (lines 297, 319, 342)
StreamStart(s) ==
    /\ ent_pc = "fetching"
    /\ MayStart(s)
    /\ st' = [st EXCEPT ![s].pc = "first",
                        ![s].session = cfg.session,
                        ![s].filter_str = StreamFilter(BaseFilter(cfg), DocTypeOf(cfg, s))]
    /\ UNCHANGED <<cfg, srv_total, ent_pubs, ent_unique, ent_pc>>
    /\ UNCHANGED notFetch

\* lines 216-231: the first page
StreamFirst(s) ==
    /\ st[s].pc = "first"
    /\ \E success \in PageOutcomes :
          LET params == FirstParams(st[s].filter_str)
              results == ServerPage(s, params)
              total_count == srv_total[s]
              log == Append(st[s].requests,
                            [params |-> params, ok |-> success,
                             next_cursor |-> ServerNextCursor(s, params)])
          IN  /\ ~success => MayFail(1)
              /\ st' = [st EXCEPT ![s] =
                           IF ~success
                           THEN [@ EXCEPT !.requests = log, !.pc = "done"]
                           ELSE [@ EXCEPT
                                   !.requests = log,
                                   !.publications = process_publications_batch(results),
                                   !.total_pages = TotalPages(total_count),
                                   !.page = 2,
                                   !.pc = IF 2 <= TotalPages(total_count)
                                          THEN "pages" ELSE "done"]]
    /\ UNCHANGED <<cfg, srv_total, ent_pubs, ent_unique, ent_pc>>
    /\ UNCHANGED notFetch

\* lines 234-249: one pass of the loop over the remaining pages
StreamNext(s) ==
    /\ st[s].pc = "pages"
    /\ \E success \in PageOutcomes :
          LET params == PageParams(st[s].filter_str, st[s].page)
              results == ServerPage(s, params)
          IN  /\ ~success => MayFail(st[s].page)
              /\ st' = [st EXCEPT ![s] =
                           [@ EXCEPT
                              !.requests =
                                  Append(@, [params |-> params, ok |-> success,
                                             next_cursor |-> ServerNextCursor(s, params)]),
                              !.publications =
                                  ExtendPublications(@, success,
                                      process_publications_batch(results)),
                              !.page = @ + 1,
                              !.pc = IF st[s].page + 1 <= st[s].total_pages
                                     THEN "pages" ELSE "done"]]
    /\ UNCHANGED <<cfg, srv_total, ent_pubs, ent_unique, ent_pc>>
    /\ UNCHANGED notFetch

\* lines 308, 331-333, 352: the rows a stream returned are appended
Collect(s) ==
    /\ st[s].pc = "done"
    /\ ent_pubs' = ent_pubs \o st[s].publications
    /\ st' = [st EXCEPT ![s].pc = "collected"]
    /\ UNCHANGED <<cfg, srv_total, ent_unique, ent_pc>>
    /\ UNCHANGED notFetch

\* lines 355-361: the first row of each id, in order
\* the rows of a page, one by one
RowsOfBatch(b) ==
    [i \in 1..(b.last - b.first + 1) |->
        [id |-> b.first + i - 1, copy |-> b.copy, keyed |-> b.keyed]]

\* as UniqueRows, but a row is kept whether it has an id or not
RECURSIVE UniqueRowsUnkeyed(_, _, _)
UniqueRowsUnkeyed(batches, seen_ids, out) ==
    IF batches = <<>> THEN out
    ELSE LET b == Head(batches)
             kept == SelectSeq(RowsOfBatch(b), LAMBDA r : r.id \notin seen_ids)
         IN  UniqueRowsUnkeyed(Tail(batches), seen_ids \cup (b.first..b.last),
                               out \o kept)

\* as UniqueRows, but a later row of an id takes the place of the earlier
RECURSIVE UniqueRowsLastWins(_, _, _)
UniqueRowsLastWins(batches, seen_ids, out) ==
    IF batches = <<>> THEN out
    ELSE LET b == Head(batches)
             kept == SelectSeq(RowsOfBatch(b), LAMBDA r : r.id \notin seen_ids)
             over == [i \in 1..Len(out) |->
                         IF out[i].id \in b.first..b.last
                         THEN [out[i] EXCEPT !.copy = b.copy] ELSE out[i]]
         IN  UniqueRowsLastWins(Tail(batches), seen_ids \cup (b.first..b.last),
                                over \o kept)

\* pub.get("id", "") is "" for a row without the key, and such a row is
\* passed over (lines 357-359)
RECURSIVE UniqueRows(_, _, _)
UniqueRows(batches, seen_ids, out) ==
    IF batches = <<>> THEN out
    ELSE LET b == Head(batches)
             kept == SelectSeq(RowsOfBatch(b),
                               LAMBDA r : r.keyed /\ r.id \notin seen_ids)
         IN  UniqueRows(Tail(batches),
                        IF b.keyed THEN seen_ids \cup (b.first..b.last)
                        ELSE seen_ids,
                        out \o kept)

\* as EntityDedup, but the rows are merged as soon as one stream is in
EntityDedupEarly ==
    /\ ent_pc = "fetching"
    /\ \E s \in Streams : st[s].pc = "collected"
    /\ ent_unique' = UniqueRows(ent_pubs, {}, <<>>)
    /\ ent_pc' = "done"
    /\ UNCHANGED <<cfg, srv_total, st, ent_pubs>>
    /\ UNCHANGED notFetch

EntityDedup ==
    /\ ent_pc = "fetching"
    /\ \A s \in Streams : st[s].pc = "collected"
    /\ ent_unique' = UniqueRows(ent_pubs, {}, <<>>)
    /\ ent_pc' = "done"
    /\ UNCHANGED <<cfg, srv_total, st, ent_pubs>>
    /\ UNCHANGED notFetch

NextFetch ==
    \/ \E s \in Streams : StreamStart(s)
    \/ \E s \in Streams : StreamFirst(s)
    \/ \E s \in Streams : StreamNext(s)
    \/ \E s \in Streams : Collect(s)
    \/ EntityDedup

-----------------------------------------------------------------------------
(* retrieve_publications: one job per entity on a pool, then the merge *)

MaxEntities == 3
MaxParallel == 2
Years == 2019..2020

\* processors.py:254-266: the parameters of fetch_publications_parallel
FETCH_PARAMETERS ==
    {"session", "entity_id", "entity_name", "entity_type", "start_year",
     "end_year", "doc_types", "selected_metadata", "language_filter",
     "page_callback", "request_callback"}

\* common.py:316-317: the keyword arguments job() passes
JOB_KEYWORDS == {"max_workers", "per_page"}

\* the call of lines 306-318: Python binds the arguments before the body
\* runs, and raises TypeError for a keyword the function does not have
CallFetch(keywords, e) ==
    IF keywords \subseteq FETCH_PARAMETERS
    THEN [raised |-> "none", pubs |-> <<e>>]
    ELSE [raised |-> "TypeError", pubs |-> <<>>]

JobIdle ==
    [pc |-> "queued", session |-> "none", raised |-> "none", pubs |-> <<>>,
     taken |-> FALSE, sid |-> 0]

Entities == 1..run_cfg.entities

RunIdle ==
    /\ run_cfg = [entities |-> 0, parallel_entities |-> 0,
                  start_year |-> 0, end_year |-> 0]
    /\ jobs = <<>>
    /\ run_pubs = <<>>
    /\ run_done = 0
    /\ run_pc = "idle"
    /\ run_result = <<>>
    /\ run_limiter = "default"

RunInit ==
    /\ \E n \in 0..MaxEntities, p \in 1..MaxParallel, y1 \in Years, y2 \in Years :
          run_cfg = [entities |-> n, parallel_entities |-> p,
                     start_year |-> y1, end_year |-> y2]
    /\ jobs = [e \in Entities |-> JobIdle]
    /\ run_pubs = <<>>
    /\ run_done = 0
    /\ run_pc = "start"
    /\ run_result = <<>>
    /\ run_limiter = "default"

\* as RunValidate, but the years are not compared
RunValidateNoYears ==
    /\ run_pc = "start"
    /\ IF run_cfg.entities = 0
       THEN run_pc' = "rejected" /\ UNCHANGED run_limiter
       ELSE run_pc' = "pool" /\ run_limiter' = "set"
    /\ UNCHANGED <<run_cfg, jobs, run_pubs, run_done, run_result>>
    /\ UNCHANGED notRun

\* lines 275-281: the checks; line 284: set_rate_limit; lines 334-335:
\* every job is submitted
RunValidate ==
    /\ run_pc = "start"
    /\ IF run_cfg.entities = 0 \/ run_cfg.start_year > run_cfg.end_year
       THEN run_pc' = "rejected" /\ UNCHANGED run_limiter
       ELSE run_pc' = "pool" /\ run_limiter' = "set"
    /\ UNCHANGED <<run_cfg, jobs, run_pubs, run_done, run_result>>
    /\ UNCHANGED notRun

\* api_client.py:30-43: get_session makes a new session at every call; the
\* sessions of a run are numbered as they are made, 0 is none
NewSession == 1 + Cardinality({u \in DOMAIN jobs : jobs[u].sid # 0})

\* as JobStart, but the jobs use one session that is made once
JobStartSharedSession(e) ==
    /\ run_pc \in {"pool", "raising"}
    /\ jobs[e].pc = "queued"
    /\ \A u \in Entities : u < e => jobs[u].pc # "queued"
    /\ Cardinality({u \in Entities : jobs[u].pc \in {"running", "closing"}})
          < run_cfg.parallel_entities
    /\ jobs' = [jobs EXCEPT ![e].pc = "running", ![e].session = "open",
                            ![e].sid = 1]
    /\ UNCHANGED <<run_limiter, run_cfg, run_pubs, run_done, run_pc, run_result>>
    /\ UNCHANGED notRun

\* a pool thread takes the next job of the queue (line 302: get_session)
JobStart(e) ==
    /\ run_pc \in {"pool", "raising"}
    /\ jobs[e].pc = "queued"
    /\ \A u \in Entities : u < e => jobs[u].pc # "queued"
    /\ Cardinality({u \in Entities : jobs[u].pc \in {"running", "closing"}})
          < run_cfg.parallel_entities
    /\ jobs' = [jobs EXCEPT ![e].pc = "running", ![e].session = "open",
                            ![e].sid = NewSession]
    /\ UNCHANGED <<run_limiter, run_cfg, run_pubs, run_done, run_pc, run_result>>
    /\ UNCHANGED notRun

\* lines 303-319: the try block of job()
JobFetch(e) ==
    /\ jobs[e].pc = "running"
    /\ LET r == CallFetch(JOB_KEYWORDS, e)
       IN  jobs' = [jobs EXCEPT ![e].pc = "closing", ![e].raised = r.raised,
                                ![e].pubs = r.pubs]
    /\ UNCHANGED <<run_limiter, run_cfg, run_pubs, run_done, run_pc, run_result>>
    /\ UNCHANGED notRun

\* as JobClose, but the session is closed after the try block and not in
\* a finally
JobCloseNoFinally(e) ==
    /\ jobs[e].pc = "closing"
    /\ jobs' = [jobs EXCEPT ![e].pc = "done",
                            ![e].session = IF jobs[e].raised = "none"
                                           THEN "closed" ELSE "open"]
    /\ UNCHANGED <<run_limiter, run_cfg, run_pubs, run_done, run_pc, run_result>>
    /\ UNCHANGED notRun

\* lines 320-324: finally, which completes the future
JobClose(e) ==
    /\ jobs[e].pc = "closing"
    /\ jobs' = [jobs EXCEPT ![e].pc = "done", ![e].session = "closed"]
    /\ UNCHANGED <<run_limiter, run_cfg, run_pubs, run_done, run_pc, run_result>>
    /\ UNCHANGED notRun

\* lines 336-339: as_completed hands over a completed future, and
\* fut.result() returns what the job returned or raises what it raised
Take(job) == IF job.raised # "none" THEN "raising" ELSE "pool"

TakeResult(e) ==
    /\ run_pc = "pool"
    /\ jobs[e].pc = "done"
    /\ ~jobs[e].taken
    /\ jobs' = [jobs EXCEPT ![e].taken = TRUE]
    /\ run_pc' = Take(jobs[e])
    /\ IF Take(jobs[e]) = "pool"
       THEN run_pubs' = run_pubs \o jobs[e].pubs /\ run_done' = run_done + 1
       ELSE UNCHANGED <<run_pubs, run_done>>
    /\ UNCHANGED <<run_limiter, run_cfg, run_result>>
    /\ UNCHANGED notRun

\* the first occurrence of each row, standing for the merge of line 358
RECURSIVE FirstOccurrences(_, _)
FirstOccurrences(rows, out) ==
    IF rows = <<>> THEN out
    ELSE FirstOccurrences(Tail(rows),
                          IF \E i \in 1..Len(out) : out[i] = Head(rows)
                          THEN out ELSE Append(out, Head(rows)))

\* the end of the with block (the pool waits for every job) and what
\* follows: the exception leaves retrieve_publications, or lines 351-358
PoolExit ==
    /\ \/ run_pc = "raising"
       \/ run_pc = "pool" /\ \A e \in Entities : jobs[e].taken
    /\ \A e \in Entities : jobs[e].pc = "done"
    /\ IF run_pc = "raising"
       THEN run_pc' = "aborted" /\ UNCHANGED run_result
       ELSE IF run_pubs = <<>>
            THEN run_pc' = "nothing found" /\ UNCHANGED run_result
            ELSE run_pc' = "exported"
                 /\ run_result' = FirstOccurrences(run_pubs, <<>>)
    /\ UNCHANGED <<run_limiter, run_cfg, jobs, run_pubs, run_done>>
    /\ UNCHANGED notRun

NextRun ==
    \/ RunValidate
    \/ \E e \in Entities : JobStart(e)
    \/ \E e \in Entities : JobFetch(e)
    \/ \E e \in Entities : JobClose(e)
    \/ \E e \in Entities : TakeResult(e)
    \/ PoolExit

-----------------------------------------------------------------------------
(* process_publications_batch and the formatters it calls *)

\* JSON values: a kind and, but for null and an absent key, what it holds.
\* A string is a sequence of tokens, the prefixes that the patterns of
\* formatters.py:7-8 remove being one token each
Missing == [kind |-> "missing"]
Null == [kind |-> "null"]
Str(tokens) == [kind |-> "str", v |-> tokens]
Num(n) == [kind |-> "num", v |-> n]
List(items) == [kind |-> "list", v |-> items]
Dict(d) == [kind |-> "dict", v |-> d]

OPENALEX_PATTERN == "https://openalex.org/"
DOI_PATTERN == "https://doi.org/"

\* dict.get(key, default)
Get(d, key, default) == IF d[key].kind = "missing" THEN default ELSE d[key]

\* bool(x) is False
Falsy(x) ==
    \/ x.kind = "null"
    \/ x.kind \in {"str", "list"} /\ x.v = <<>>
    \/ x.kind = "dict" /\ DOMAIN x.v = {}
    \/ x.kind = "num" /\ x.v = 0

\* pattern.sub("", s)
Sub(pattern, s) == SelectSeq(s, LAMBDA c : c # pattern)

\* str.lower(), on the letters that ids are made of
LowerToken(c) ==
    CASE c = "A" -> "a" [] c = "W" -> "w" [] c = "I" -> "i" [] OTHER -> c

Lower(s) == [i \in 1..Len(s) |-> LowerToken(s[i])]

\* str.endswith
EndsWith(s, suffix) ==
    /\ Len(suffix) <= Len(s)
    /\ SubSeq(s, Len(s) - Len(suffix) + 1, Len(s)) = suffix

\* what a call gives: a value, or the exception it raised
Ok(v) == [raised |-> "none", value |-> v]
Raise(exc) == [raised |-> exc, value |-> <<>>]

\* an authorship and the author in it have these keys, absent or not
NoAuthor == [id |-> Missing, display_name |-> Missing]

\* formatters.py:167-176: the loop, from the i-th authorship on
RECURSIVE PositionFrom(_, _, _)
PositionFrom(authorships, author_id_clean, i) ==
    IF i > Len(authorships) THEN Ok("Not found")
    ELSE LET author == Get(authorships[i], "author", Dict(NoAuthor))
         IN  IF author.kind # "dict" THEN Raise("AttributeError")
             ELSE LET id == Get(author.v, "id", Str(<<>>))
                  IN  IF id.kind # "str" THEN Raise("AttributeError")
                      ELSE IF EndsWith(Lower(id.v), author_id_clean)
                      THEN IF i = 1 THEN Ok("First")
                           ELSE IF i = Len(authorships) THEN Ok("Last")
                           ELSE Ok("Middle")
                      ELSE PositionFrom(authorships, author_id_clean, i + 1)

\* iterating over a value that is not a list: the characters of a string
\* have no get(), null and numbers cannot be iterated over
NotAList(x) == IF x.kind = "str" THEN Raise("AttributeError") ELSE Raise("TypeError")

\* as extract_author_position, but the test for the last place comes first
extract_author_position_last_first(pub, author_id) ==
    LET authorships == Get(pub, "authorships", List(<<>>))
    IN  IF authorships.kind # "list" THEN NotAList(authorships)
        ELSE LET r == PositionFrom(authorships.v, Lower(author_id), 1)
             IN  IF r = Ok("First") /\ Len(authorships.v) = 1 THEN Ok("Last") ELSE r

\* formatters.py:162-176
extract_author_position(pub, author_id) ==
    LET authorships == Get(pub, "authorships", List(<<>>))
    IN  IF authorships.kind # "list" THEN NotAList(authorships)
        ELSE PositionFrom(authorships.v, Lower(author_id), 1)

\* formatters.py:22-48: the words in the order of their positions
format_abstract_optimized(inverted_index) ==
    IF Falsy(inverted_index) THEN Ok(<<>>)
    ELSE IF inverted_index.kind # "dict"
            \/ \E w \in DOMAIN inverted_index.v : inverted_index.v[w].kind # "list"
    THEN Ok(<<"[Abstract processing error]">>)
    ELSE LET idx == inverted_index.v
             positions == UNION {Range(idx[w].v) : w \in DOMAIN idx}
             ordered == Sorted({<<q>> : q \in positions})
         IN  Ok([i \in 1..Len(ordered) |->
                    CHOOSE w \in DOMAIN idx : ordered[i][1] \in Range(idx[w].v)])

\* formatters.py:50-62, without the mark of the corresponding author
RECURSIVE AuthorNames(_, _, _)
AuthorNames(authorships, i, names) ==
    IF i > Len(authorships) THEN Ok(names)
    ELSE LET author == Get(authorships[i], "author", Dict(NoAuthor))
         IN  IF author.kind # "dict" THEN Raise("AttributeError")
             ELSE LET name == Get(author.v, "display_name", Str(<<"Unknown">>))
                  IN  IF name.kind # "str" THEN Raise("AttributeError")
                      ELSE AuthorNames(authorships, i + 1,
                                       names \o (IF names = <<>> THEN <<>> ELSE <<" | ">>)
                                             \o name.v)

format_authors_simple(authorships) ==
    IF Falsy(authorships) THEN Ok(<<>>)
    ELSE IF authorships.kind # "list" THEN NotAList(authorships)
    ELSE AuthorNames(authorships.v, 1, <<>>)

\* ", ".join of a list of strings
RECURSIVE JoinStrings(_, _, _)
JoinStrings(items, i, out) ==
    IF i > Len(items) THEN Ok(out)
    ELSE IF items[i].kind # "str" THEN Raise("TypeError")
    ELSE JoinStrings(items, i + 1,
                     out \o (IF i = 1 THEN <<>> ELSE <<", ">>) \o items[i].v)

\* processors.py:74-123: the value of one selected field
FormatField(pub, field) ==
    CASE field = "id" ->
            LET x == Get(pub, "id", Str(<<>>))
            IN  IF x.kind = "str" THEN Ok(Sub(OPENALEX_PATTERN, x.v))
                ELSE Raise("TypeError")
      [] field = "doi" ->
            LET doi == Get(pub, "doi", Str(<<>>))
            IN  IF Falsy(doi) THEN Ok(<<>>)
                ELSE IF doi.kind = "str" THEN Ok(Sub(DOI_PATTERN, doi.v))
                ELSE Raise("TypeError")
      [] field = "abstract_inverted_index" ->
            format_abstract_optimized(Get(pub, "abstract_inverted_index",
                                          Dict([w \in {} |-> Null])))
      [] field = "authorships" ->
            format_authors_simple(Get(pub, "authorships", List(<<>>)))
      [] field = "datasets" ->
            LET x == Get(pub, "datasets", List(<<>>))
            IN  IF x.kind = "list" THEN JoinStrings(x.v, 1, <<>>)
                ELSE IF x.kind = "str"
                THEN JoinStrings([i \in 1..Len(x.v) |-> Str(<<x.v[i]>>)], 1, <<>>)
                ELSE Raise("TypeError")
      [] OTHER ->
            \* get_value_from_nested_dict, then clean_text_field or str()
            LET value == pub[field]
            IN  IF value.kind \in {"missing", "null"} THEN Ok(<<>>)
                ELSE IF value.kind = "str" THEN Ok(value.v)
                ELSE Ok(<<"str()">>)

\* lines 63-71: the stamp of the entity
EntityStampNoPosition(entity, position) ==
    [institutions_extracted |-> "", authors_extracted |-> entity.name,
     position_extracted |-> ""]

EntityStamp(entity, position) ==
    IF entity.type = "institution"
    THEN [institutions_extracted |-> entity.name, authors_extracted |-> "",
          position_extracted |-> ""]
    ELSE [institutions_extracted |-> "", authors_extracted |-> entity.name,
          position_extracted |-> position]

\* lines 73-125: the selected fields, one after the other
RECURSIVE ProjectFields(_, _, _, _)
ProjectFields(pub, selected_metadata, i, pub_data) ==
    IF i > Len(selected_metadata) THEN Ok(pub_data)
    ELSE LET r == FormatField(pub, selected_metadata[i])
         IN  IF r.raised # "none" THEN Raise(r.raised)
             ELSE ProjectFields(pub, selected_metadata, i + 1,
                                (selected_metadata[i] :> r.value) @@ pub_data)

\* lines 60-127: the row of one record
ProjectRecord(pub, entity, selected_metadata) ==
    LET position == IF entity.type = "institution" THEN Ok("")
                    ELSE extract_author_position(pub, entity.id)
    IN  IF position.raised # "none" THEN Raise(position.raised)
        ELSE ProjectFields(pub, selected_metadata, 1, EntityStamp(entity, position.value))

\* --- the records the projector is tried on

\* the longest list of authorships
MaxAuthorships == 3
\* the well-formed records before and after the one under test in its page
MaxNeighbours == 1

AuthorA1 == <<OPENALEX_PATTERN, "A", "1">>
AuthorA2 == <<OPENALEX_PATTERN, "A", "2">>

Authorship(id, name) ==
    [author |-> Dict([id |-> Str(id), display_name |-> Str(<<name>>)])]

WellFormedAuthorships ==
    UNION {[1..n -> {Authorship(AuthorA1, "Ada"), Authorship(AuthorA2, "Bob")}] :
              n \in 0..MaxAuthorships}

\* authorships that lack what the formatters reach for
MalformedAuthorships ==
    {<<[author |-> Null]>>,
     <<[author |-> Missing]>>,
     <<[author |-> Dict([id |-> Null, display_name |-> Str(<<"Ada">>)])]>>,
     <<[author |-> Dict([id |-> Str(AuthorA1), display_name |-> Null])]>>,
     <<[author |-> Dict([id |-> Missing, display_name |-> Missing])]>>}

WellFormedRecord(authorships) ==
    [id |-> Str(<<OPENALEX_PATTERN, "W", "1">>),
     doi |-> Str(<<DOI_PATTERN, "10.1/x">>),
     abstract_inverted_index |->
         Dict(("of" :> List(<<1>>)) @@ ("words" :> List(<<0, 2>>))),
     datasets |-> List(<<Str(<<"d1">>), Str(<<"d2">>)>>),
     authorships |-> List(authorships),
     publication_year |-> Num(2020)]

Neighbour == WellFormedRecord(<<Authorship(AuthorA1, "Ada")>>)

FIELDS ==
    <<"id", "doi", "abstract_inverted_index", "authorships", "datasets",
      "publication_year">>

\* one field absent, null or of another type than the API documents
MalformedRecords ==
    {[Neighbour EXCEPT ![f] = x] :
        f \in Range(FIELDS), x \in {Missing, Null, Num(7), Str(<<"text">>)}}
    \cup {WellFormedRecord(a) : a \in MalformedAuthorships}
    \cup {[Neighbour EXCEPT !.abstract_inverted_index = Dict(("word" :> Null))]}

RawRecords ==
    {WellFormedRecord(a) : a \in WellFormedAuthorships} \cup MalformedRecords

ProjectorEntities ==
    {[id |-> <<"i", "1">>, name |-> "Inst", type |-> "institution"]}
    \cup {[id |-> id, name |-> "Lovelace, Ada", type |-> "author"] :
             id \in {<<"a", "1">>, <<"A", "1">>, <<"a", "3">>}}

ProjectIdle ==
    /\ pj_results = <<>>
    /\ pj_entity = [id |-> <<>>, name |-> "", type |-> ""]
    /\ pj_selected = <<>>
    /\ pj_idx = 0
    /\ pj_publications = <<>>
    /\ pj_pc = "idle"

\* the call of process_publications_batch on a page
ProjectInit ==
    /\ \E pub \in RawRecords, before \in 0..MaxNeighbours, after \in 0..MaxNeighbours :
          pj_results = [i \in 1..before |-> Neighbour] \o <<pub>>
                       \o [i \in 1..after |-> Neighbour]
    /\ pj_entity \in ProjectorEntities
    /\ pj_selected \in {<<"id">>, FIELDS}
    /\ pj_idx = 1
    /\ pj_publications = <<>>
    /\ pj_pc = "loop"

\* lines 60-127: one pass of the loop; an exception leaves the function
ProjectStep ==
    /\ pj_pc = "loop"
    /\ pj_idx <= Len(pj_results)
    /\ LET r == ProjectRecord(pj_results[pj_idx], pj_entity, pj_selected)
       IN  IF r.raised # "none"
           THEN /\ pj_pc' = "raised"
                /\ UNCHANGED <<pj_idx, pj_publications>>
           ELSE /\ pj_publications' = Append(pj_publications, r.value)
                /\ pj_idx' = pj_idx + 1
                /\ UNCHANGED pj_pc
    /\ UNCHANGED <<pj_results, pj_entity, pj_selected>>
    /\ UNCHANGED notProject

\* line 129
ProjectReturn ==
    /\ pj_pc = "loop"
    /\ pj_idx > Len(pj_results)
    /\ pj_pc' = "returned"
    /\ UNCHANGED <<pj_results, pj_entity, pj_selected, pj_idx, pj_publications>>
    /\ UNCHANGED notProject

NextProject == ProjectStep \/ ProjectReturn

-----------------------------------------------------------------------------
(* search_author_by_name and _fetch_candidates_for_one *)

\* most results that the search is given, and the largest works_count
MaxResults == 22
MaxWorks == 2

\* ui/authors.py:143: matches[:20]
CANDIDATE_CAP == 20

\* str.replace(old, ""), on tokens
Replace(s, old) == SelectSeq(s, LAMBDA c : c # old)

\* x or default
OrElse(x, default) == IF Falsy(x) THEN default ELSE x

\* an /authors result of the i-th rank; a works_count of 0 may come as null
AuthorResult(i, works, zero_as_null) ==
    Dict([id |-> Str(<<OPENALEX_PATTERN, "A", ToString(i)>>),
          works_count |-> IF works = 0 /\ zero_as_null THEN Null ELSE Num(works)])

\* the results of a response: n of them, their works_count going through
\* 0..MaxWorks in steps of a from b on, the one at place bad (if any) null
AuthorResults(n, a, b, zero_as_null, bad) ==
    [i \in 1..n |->
        IF i = bad THEN Null
        ELSE AuthorResult(i, (a * i + b) % (MaxWorks + 1), zero_as_null)]

\* what rate_limited_get gives for the search: no response, or a response
\* with a status and a body that is not JSON or an object with "results"
SearchAnswers ==
    {[status |-> s, body |-> "none", results |-> Missing] : s \in {"none", "429", "503"}}
    \cup {[status |-> "200", body |-> "invalid", results |-> Missing]}
    \cup {[status |-> "200", body |-> "json", results |-> r] : r \in {Missing, Null}}
    \cup {[status |-> "200", body |-> "json",
           results |-> List(AuthorResults(n, a, b, z, bad))] :
             n \in 0..MaxResults, a \in 0..MaxWorks, b \in 0..MaxWorks,
             z \in BOOLEAN, bad \in 0..MaxResults}

\* api_client.py:101-116
search_author_by_name(answer) ==
    IF answer.status = "200"
    THEN IF answer.body = "invalid" THEN <<>>
         ELSE OrElse(Get([results |-> answer.results], "results", List(<<>>)),
                     List(<<>>)).v
    ELSE <<>>

\* ui/authors.py:56-62 and the id and works_count of the row returned
CandidateFromAuthorsResult(match) ==
    IF match.kind # "dict" THEN Raise("AttributeError")
    ELSE LET id == OrElse(Get(match.v, "id", Str(<<>>)), Str(<<>>))
             works_count == OrElse(Get(match.v, "works_count", Num(0)), Num(0))
         IN  Ok([id |-> Replace(id.v, OPENALEX_PATTERN),
                 works_count |-> works_count.v])

\* matches[:20]
Cap(matches) == SubSeq(matches, 1, Min(CANDIDATE_CAP, Len(matches)))

\* list.sort(key, reverse=True) is stable: c goes behind the candidates
\* that have at least its works_count
InsertByWorks(sorted, c) ==
    LET ahead == {i \in 1..Len(sorted) : sorted[i].works_count >= c.works_count}
        k == Cardinality(ahead)
    IN  SubSeq(sorted, 1, k) \o <<c>> \o SubSeq(sorted, k + 1, Len(sorted))

RECURSIVE SortFrom(_, _, _)
SortFrom(candidates, i, sorted) ==
    IF i > Len(candidates) THEN sorted
    ELSE SortFrom(candidates, i + 1, InsertByWorks(sorted, candidates[i]))

\* as SortByWorksCount, but the candidates stay as they were appended
SortByWorksCountNot(candidates) == candidates

\* ui/authors.py:151
SortByWorksCount(candidates) == SortFrom(candidates, 1, <<>>)

CandidatesIdle ==
    /\ cd_answer = [status |-> "none", body |-> "none", results |-> Missing]
    /\ cd_matches = <<>>
    /\ cd_idx = 0
    /\ cd_candidates = <<>>
    /\ cd_pc = "idle"

\* the call of _fetch_candidates_for_one for one name
CandidatesInit ==
    /\ cd_answer \in SearchAnswers
    /\ cd_matches = <<>>
    /\ cd_idx = 0
    /\ cd_candidates = <<>>
    /\ cd_pc = "search"

\* lines 141-143
CandidatesSearch ==
    /\ cd_pc = "search"
    /\ cd_matches' = Cap(search_author_by_name(cd_answer))
    /\ cd_idx' = 1
    /\ cd_pc' = "build"
    /\ UNCHANGED <<cd_answer, cd_candidates>>
    /\ UNCHANGED notCandidates

\* lines 144-148: one pass of the loop; an exception ends the loop
CandidatesBuild ==
    /\ cd_pc = "build"
    /\ cd_idx <= Len(cd_matches)
    /\ LET r == CandidateFromAuthorsResult(cd_matches[cd_idx])
       IN  IF r.raised # "none"
           THEN /\ cd_pc' = "sort"
                /\ UNCHANGED <<cd_idx, cd_candidates>>
           ELSE /\ cd_candidates' = Append(cd_candidates, r.value)
                /\ cd_idx' = cd_idx + 1
                /\ UNCHANGED cd_pc
    /\ UNCHANGED <<cd_answer, cd_matches>>
    /\ UNCHANGED notCandidates

\* the loop of line 144 is through
CandidatesBuilt ==
    /\ cd_pc = "build"
    /\ cd_idx > Len(cd_matches)
    /\ cd_pc' = "sort"
    /\ UNCHANGED <<cd_answer, cd_matches, cd_idx, cd_candidates>>
    /\ UNCHANGED notCandidates

\* lines 150-152
CandidatesReturn ==
    /\ cd_pc = "sort"
    /\ cd_candidates' = SortByWorksCount(cd_candidates)
    /\ cd_pc' = "returned"
    /\ UNCHANGED <<cd_answer, cd_matches, cd_idx>>
    /\ UNCHANGED notCandidates

NextCandidates ==
    CandidatesSearch \/ CandidatesBuild \/ CandidatesBuilt \/ CandidatesReturn

-----------------------------------------------------------------------------
(* clean_text_field *)

\* the longest text that is cleaned
MaxText == 4

\* NUL, line feed, space, "a", no-break space, line separator
TextAlphabet == {0, 10, 32, 97, 160, 8232}

\* formatters.py:15: the class [\x00-\x1f\x7f-\x9f]
IsControl(c) == c \in 0..31 \/ c \in 127..159

\* the characters at which str.split() without a separator splits
IsWhitespace(c) ==
    c \in {9, 10, 11, 12, 13, 28, 29, 30, 31, 32, 133, 160, 8232, 8233}

\* re.sub(r'[\x00-\x1f\x7f-\x9f]', ' ', text)
ReSubControl(s) == [i \in 1..Len(s) |-> IF IsControl(s[i]) THEN 32 ELSE s[i]]

\* str.replace(old, ' ') for a character old
ReplaceBySpace(s, old) == [i \in 1..Len(s) |-> IF s[i] = old THEN 32 ELSE s[i]]

\* text.split(): the words between the runs of whitespace
RECURSIVE SplitWhitespace(_, _, _)
SplitWhitespace(s, word, words) ==
    IF s = <<>> THEN IF word = <<>> THEN words ELSE Append(words, word)
    ELSE IF IsWhitespace(Head(s))
    THEN SplitWhitespace(Tail(s), <<>>,
                         IF word = <<>> THEN words ELSE Append(words, word))
    ELSE SplitWhitespace(Tail(s), Append(word, Head(s)), words)

\* lines 16-17: the line breaks, the tab and the two separators
ReplaceBreaks(s) ==
    ReplaceBySpace(ReplaceBySpace(ReplaceBySpace(ReplaceBySpace(ReplaceBySpace(
        s, 10), 13), 9), 8232), 8233)

\* as clean_text_field, but the words are split and joined before the
\* control characters are replaced
clean_text_field_split_first(text) ==
    IF Falsy(text) \/ text.kind # "str" THEN text
    ELSE Str(Strip(ReplaceBreaks(ReSubControl(
                 Join(<<32>>, SplitWhitespace(text.v, <<>>, <<>>))))))

\* formatters.py:10-20
clean_text_field(text) ==
    IF Falsy(text) \/ text.kind # "str" THEN text
    ELSE Str(Strip(Join(<<32>>,
                        SplitWhitespace(ReplaceBreaks(ReSubControl(text.v)),
                                        <<>>, <<>>))))

RECURSIVE TextsOfLength(_)
TextsOfLength(n) ==
    IF n = 0 THEN {<<>>}
    ELSE {Append(s, c) : s \in TextsOfLength(n - 1), c \in TextAlphabet}

\* what clean_text_field is given: a string, None or a number
Texts ==
    {Str(s) : s \in UNION {TextsOfLength(n) : n \in 0..MaxText}}
    \cup {Null, Num(7)}

CleanIdle ==
    /\ ct_text = Null
    /\ ct_out = <<>>
    /\ ct_pc = "idle"

CleanInit ==
    /\ ct_text \in Texts
    /\ ct_out = <<>>
    /\ ct_pc = "clean"

\* clean_text_field is called on the text, then on what it returned
CleanCall ==
    /\ ct_pc = "clean"
    /\ Len(ct_out) < 2
    /\ ct_out' = Append(ct_out, clean_text_field(IF ct_out = <<>> THEN ct_text
                                                 ELSE ct_out[Len(ct_out)]))
    /\ UNCHANGED <<ct_text, ct_pc>>
    /\ UNCHANGED notClean

CleanDone ==
    /\ ct_pc = "clean"
    /\ Len(ct_out) = 2
    /\ ct_pc' = "done"
    /\ UNCHANGED <<ct_text, ct_out>>
    /\ UNCHANGED notClean

NextClean == CleanCall \/ CleanDone

-----------------------------------------------------------------------------
(* prefetch_author_candidates_parallel *)

\* ui/authors.py:28
WORKERS == 10

\* the most rows of the uploaded file
MaxNames == 11

\* lines 164 and 171: the session of the job of index idx, of a pool of n
SessionOfJob(idx, n) == idx % n

PrefetchJobIdle == [pc |-> "queued", session |-> -1]

PrefetchIdle ==
    /\ pf_rows = <<>>
    /\ pf_jobs = <<>>
    /\ pf_pc = "idle"

\* the call for a file of rows, of which one may lack a name (line 169);
\* line 185: a job is submitted for every row
PrefetchInit ==
    /\ \E n \in 0..MaxNames, blank \in 0..MaxNames :
          pf_rows = [i \in 1..n |-> IF i = blank THEN "" ELSE "name"]
    /\ pf_jobs = [i \in DOMAIN pf_rows |-> PrefetchJobIdle]
    /\ pf_pc = "pool"

PrefetchRunning == {i \in DOMAIN pf_jobs : pf_jobs[i].pc = "fetching"}

\* a thread of the pool takes the next job of the queue: lines 167-171.
\* The index of the job of the i-th row is i - 1
PrefetchJobStart(i) ==
    /\ pf_pc = "pool"
    /\ pf_jobs[i].pc = "queued"
    /\ \A j \in DOMAIN pf_jobs : j < i => pf_jobs[j].pc # "queued"
    /\ Cardinality(PrefetchRunning) < WORKERS
    /\ pf_jobs' = [pf_jobs EXCEPT ![i] =
                      IF pf_rows[i] = ""
                      THEN [pc |-> "done", session |-> -1]
                      ELSE [pc |-> "fetching",
                            session |-> SessionOfJob(i - 1, WORKERS)]]
    /\ UNCHANGED <<pf_rows, pf_pc>>
    /\ UNCHANGED notPrefetch

\* lines 172-180: _fetch_candidates_for_one has returned
PrefetchJobEnd(i) ==
    /\ pf_jobs[i].pc = "fetching"
    /\ pf_jobs' = [pf_jobs EXCEPT ![i].pc = "done"]
    /\ UNCHANGED <<pf_rows, pf_pc>>
    /\ UNCHANGED notPrefetch

\* lines 187-199: every future was collected and the pool is left
PrefetchJoin ==
    /\ pf_pc = "pool"
    /\ \A i \in DOMAIN pf_jobs : pf_jobs[i].pc = "done"
    /\ pf_pc' = "done"
    /\ UNCHANGED <<pf_rows, pf_jobs>>
    /\ UNCHANGED notPrefetch

NextPrefetch ==
    \/ \E i \in DOMAIN pf_jobs : PrefetchJobStart(i)
    \/ \E i \in DOMAIN pf_jobs : PrefetchJobEnd(i)
    \/ PrefetchJoin

-----------------------------------------------------------------------------
(* render_config_section: the form of the configuration (ui/common.py) *)

\* line 35: datetime.now().year, in a session of 2026
CURRENT_YEAR == 2026
\* the form is tried on the years from MaxYearsBack before the default start
MaxYearsBack == 1
FormYears == (CURRENT_YEAR - 5 - MaxYearsBack)..CURRENT_YEAR

\* the document types ticked in the form: one of them, or all
FormDocTypes == {{"article"}, Range(DOCUMENT_TYPES)}

\* lines 77-90: the configuration ensure_defaults stores; of the fields
\* that Apply copies as they are, doc_types stands for all
DefaultConfig ==
    [start_year |-> CURRENT_YEAR - 5, end_year |-> CURRENT_YEAR,
     doc_types |-> Range(DOCUMENT_TYPES)]

\* lines 102-115: the mirrors of the form are seeded from the configuration
Mirrors(c) ==
    [cfg_start_year |-> c.start_year, cfg_end_year |-> c.end_year,
     cfg_doc_types |-> c.doc_types]

ConfigIdle ==
    /\ cf_config = [start_year |-> 0, end_year |-> 0, doc_types |-> {}]
    /\ cf_form = Mirrors(cf_config)
    /\ cf_msg = "idle"

ConfigInit ==
    /\ cf_config = DefaultConfig
    /\ cf_form = Mirrors(DefaultConfig)
    /\ cf_msg = "none"

\* lines 199-201: all the document types are stored as none (no filter)
DocTypesToStore(doc_types) ==
    IF Cardinality(doc_types) = Len(DOCUMENT_TYPES) THEN {} ELSE doc_types

\* as ApplyConfiguration, but the years are not compared
ApplyConfigurationUnchecked(start, end, types) ==
    /\ cf_msg # "idle"
    /\ cf_form' = [cfg_start_year |-> start, cfg_end_year |-> end,
                   cfg_doc_types |-> types]
    /\ cf_config' = [start_year |-> start, end_year |-> end,
                     doc_types |-> DocTypesToStore(types)]
    /\ cf_msg' = "success"
    /\ UNCHANGED notConfig

\* lines 192-217: the form is submitted with the values of its widgets
ApplyConfiguration(start, end, types) ==
    /\ cf_msg # "idle"
    /\ cf_form' = [cfg_start_year |-> start, cfg_end_year |-> end,
                   cfg_doc_types |-> types]
    /\ IF start > end
       THEN cf_msg' = "error" /\ UNCHANGED cf_config
       ELSE /\ cf_config' = [start_year |-> start, end_year |-> end,
                             doc_types |-> DocTypesToStore(types)]
            /\ cf_msg' = "success"
    /\ UNCHANGED notConfig

NextConfig ==
    \E start \in FormYears, end \in FormYears, types \in FormDocTypes :
        ApplyConfiguration(start, end, types)

-----------------------------------------------------------------------------
(* The choice of a method and the selection of entities (app.py,          *)
(* ui/landing.py, ui/institutions.py, ui/authors.py)                      *)

\* the institutions of the master file
MaxInstitutions == 2
InstitutionIds == {"I" \o ToString(i) : i \in 1..MaxInstitutions}

\* the names of an uploaded file and the profiles OpenAlex has for them,
\* in the order of the editor's rows
InputKeys == {"k1", "k2"}
ProfileIds == <<"A1", "A2">>

\* what a search shows: up to two rows, which may be of one institution
ResultsShown == UNION {[1..n -> InstitutionIds] : n \in 0..2}

InstitutionEntity(id) ==
    [type |-> "institution", id |-> id, input_key |-> "none"]
AuthorEntity(id, key) == [type |-> "author", id |-> id, input_key |-> key]

\* the ways to go through a set, one element after the other
Orderings(S) ==
    {f \in [1..Cardinality(S) -> S] : \A i, j \in DOMAIN f : f[i] = f[j] => i = j}

SelectionIdle ==
    /\ selection_mode = "idle"
    /\ selected_entities = <<>>
    /\ results_df = <<>>
    /\ author_candidates = <<>>

\* app.py:21-24: the state of a new session
SelectionInit ==
    /\ selection_mode = "None"
    /\ selected_entities = <<>>
    /\ results_df = <<>>
    /\ author_candidates = <<>>

\* landing.py:36-39, 61-64: one of the two buttons of the landing page
ChooseMethod(mode) ==
    /\ selection_mode = "None"
    /\ selection_mode' = mode
    /\ selected_entities' = <<>>
    /\ UNCHANGED <<results_df, author_candidates>>
    /\ UNCHANGED notSelection

\* as SwitchMethod, but the selected entities are kept
SwitchMethodKeepEntities ==
    /\ selection_mode \in {"institutions", "authors"}
    /\ selection_mode' = "None"
    /\ author_candidates' = <<>>
    /\ results_df' = <<>>
    /\ UNCHANGED selected_entities
    /\ UNCHANGED notSelection

\* app.py:35-43: Switch Method; the candidates are deleted, and the search
\* box is gone with its page
SwitchMethod ==
    /\ selection_mode \in {"institutions", "authors"}
    /\ selection_mode' = "None"
    /\ selected_entities' = <<>>
    /\ author_candidates' = <<>>
    /\ results_df' = <<>>
    /\ UNCHANGED notSelection

\* institutions.py:185-195: a query is typed and its results are shown
Search(results) ==
    /\ selection_mode = "institutions"
    /\ results_df' = results
    /\ UNCHANGED <<selection_mode, selected_entities, author_candidates>>
    /\ UNCHANGED notSelection

\* as AddOne, but without looking for the institution among the selected
AddOneUnchecked(entities, oid) == Append(entities, InstitutionEntity(oid))

\* institutions.py:265-279: the body of the loop over the ticked ids
AddOne(entities, oid) ==
    IF \A i \in DOMAIN results_df : results_df[i] # oid THEN entities
    ELSE IF \E i \in DOMAIN entities :
               entities[i].type = "institution" /\ entities[i].id = oid
    THEN entities
    ELSE Append(entities, InstitutionEntity(oid))

RECURSIVE AddAll(_, _)
AddAll(entities, oids) ==
    IF oids = <<>> THEN entities
    ELSE AddAll(AddOne(entities, Head(oids)), Tail(oids))

\* institutions.py:246-282: Add Selected with the rows that are ticked;
\* pending_inst_selection is a set, gone through in some order, and empty
\* again when the handler returns
AddSelected(ticks) ==
    /\ selection_mode = "institutions"
    /\ results_df # <<>>
    /\ ticks \subseteq Range(results_df)
    /\ \E oids \in Orderings(ticks) :
          selected_entities' = AddAll(selected_entities, oids)
    /\ UNCHANGED <<selection_mode, results_df, author_candidates>>
    /\ UNCHANGED notSelection

HasInstitutions ==
    \E i \in DOMAIN selected_entities : selected_entities[i].type = "institution"

\* institutions.py:154-157: Clear all institutions
ClearInstitutions ==
    /\ selection_mode = "institutions"
    /\ HasInstitutions
    /\ selected_entities' =
          SelectSeq(selected_entities, LAMBDA e : e.type # "institution")
    /\ UNCHANGED <<selection_mode, results_df, author_candidates>>
    /\ UNCHANGED notSelection

\* institutions.py:158-168: Remove institution, by the id typed
RemoveInstitution(remove_id) ==
    /\ selection_mode = "institutions"
    /\ HasInstitutions
    /\ selected_entities' =
          SelectSeq(selected_entities,
                    LAMBDA e : ~(e.type = "institution" /\ e.id = remove_id))
    /\ UNCHANGED <<selection_mode, results_df, author_candidates>>
    /\ UNCHANGED notSelection

\* author_candidates[key] = payload (authors.py:192-194): the entry of a
\* key keeps its place, a new key goes to the end
PutCandidates(candidates, key, profiles) ==
    IF \E i \in DOMAIN candidates : candidates[i].key = key
    THEN [i \in DOMAIN candidates |->
             IF candidates[i].key = key
             THEN [key |-> key, candidates |-> profiles] ELSE candidates[i]]
    ELSE Append(candidates, [key |-> key, candidates |-> profiles])

RECURSIVE PutAll(_, _, _)
PutAll(candidates, keys, found) ==
    IF keys = <<>> THEN candidates
    ELSE PutAll(PutCandidates(candidates, Head(keys), found[Head(keys)]),
                Tail(keys), found)

\* authors.py:229-230, 186-195: Load candidates for the names of a file;
\* the payloads are stored as the jobs complete
LoadCandidates(found) ==
    /\ selection_mode = "authors"
    /\ \E keys \in Orderings(DOMAIN found) :
          author_candidates' = PutAll(author_candidates, keys, found)
    /\ UNCHANGED <<selection_mode, selected_entities, results_df>>
    /\ UNCHANGED notSelection

\* authors.py:389-401: the ticked profiles of one name, in the order of
\* the rows, for the candidates the name has
SelectedOf(entry, ticked) ==
    LET sids == SelectSeq(ProfileIds,
                          LAMBDA sid : sid \in ticked /\ sid \in entry.candidates)
    IN  [i \in DOMAIN sids |-> AuthorEntity(sids[i], entry.key)]

RECURSIVE CommitAll(_, _, _)
CommitAll(entities, candidates, form_edits) ==
    IF candidates = <<>> THEN entities
    ELSE CommitAll(entities \o SelectedOf(Head(candidates),
                                          form_edits[Head(candidates).key]),
                   Tail(candidates), form_edits)

\* authors.py:326-328, 360-401: Confirm ALL selections with the ticks of
\* the form
ConfirmAuthors(form_edits) ==
    /\ selection_mode = "authors"
    /\ author_candidates # <<>>
    /\ LET input_keys == {author_candidates[i].key : i \in DOMAIN author_candidates}
           kept == SelectSeq(selected_entities,
                       LAMBDA e : ~(e.type = "author" /\ e.input_key \in input_keys))
       IN  selected_entities' = CommitAll(kept, author_candidates, form_edits)
    /\ UNCHANGED <<selection_mode, results_df, author_candidates>>
    /\ UNCHANGED notSelection

\* the candidates found for the names of a file
Uploads ==
    UNION {[ks -> SUBSET Range(ProfileIds)] : ks \in SUBSET InputKeys \ {{}}}

NextSelection ==
    \/ \E mode \in {"institutions", "authors"} : ChooseMethod(mode)
    \/ SwitchMethod
    \/ \E results \in ResultsShown : Search(results)
    \/ \E ticks \in SUBSET InstitutionIds : AddSelected(ticks)
    \/ ClearInstitutions
    \/ \E remove_id \in InstitutionIds \cup {"I0"} : RemoveInstitution(remove_id)
    \/ \E found \in Uploads : LoadCandidates(found)
    \/ \E form_edits \in [InputKeys -> SUBSET Range(ProfileIds)] :
          ConfirmAuthors(form_edits)

-----------------------------------------------------------------------------
(* Specifications: one per component, the others at rest *)

InitDedup ==
    /\ DedupInit /\ ClientIdle /\ FetchIdle /\ RunIdle /\ ProjectIdle
    /\ CandidatesIdle /\ CleanIdle /\ PrefetchIdle
    /\ ConfigIdle
    /\ SelectionIdle
SpecDedup == InitDedup /\ [][NextDedup]_vars

InitClient ==
    /\ ClientInit /\ DedupIdle /\ FetchIdle /\ RunIdle /\ ProjectIdle
    /\ CandidatesIdle /\ CleanIdle /\ PrefetchIdle
    /\ ConfigIdle
    /\ SelectionIdle
SpecClient == InitClient /\ [][NextClient]_vars

\* the page requests of streams that report to a request_callback
NextPageRequest ==
    \/ NextClient
    \/ \E t \in Threads : PageReport(t)
SpecPageRequest == InitClient /\ [][NextPageRequest]_vars

InitFetch ==
    /\ FetchInit /\ DedupIdle /\ ClientIdle /\ RunIdle /\ ProjectIdle
    /\ CandidatesIdle /\ CleanIdle /\ PrefetchIdle
    /\ ConfigIdle
    /\ SelectionIdle
SpecFetch == InitFetch /\ [][NextFetch]_vars

InitRun ==
    /\ RunInit /\ DedupIdle /\ ClientIdle /\ FetchIdle /\ ProjectIdle
    /\ CandidatesIdle /\ CleanIdle /\ PrefetchIdle
    /\ ConfigIdle
    /\ SelectionIdle
SpecRun == InitRun /\ [][NextRun]_vars

\* the pool threads and the thread of the run are scheduled: a step that
\* can be taken is taken at last
FairSpecRun == SpecRun /\ WF_vars(NextRun)

\* the two pools of a run, each at work on its own: the pool of the
\* entities, or the pool of the streams of one entity
InitPools ==
    \/ InitRun
    \/ /\ FetchInitPools /\ DedupIdle /\ ClientIdle /\ RunIdle /\ ProjectIdle
       /\ CandidatesIdle /\ CleanIdle /\ PrefetchIdle
       /\ ConfigIdle
       /\ SelectionIdle
NextPools ==
    \/ run_pc # "idle" /\ NextRun
    \/ ent_pc # "idle" /\ NextFetch
SpecPools == InitPools /\ [][NextPools]_vars

\* the two stages that remove duplicates: that of an entity's fetch and
\* that of the run
InitStages ==
    \/ InitDedup
    \/ /\ FetchInitPools /\ DedupIdle /\ ClientIdle /\ RunIdle /\ ProjectIdle
       /\ CandidatesIdle /\ CleanIdle /\ PrefetchIdle
       /\ ConfigIdle
       /\ SelectionIdle
NextStages ==
    \/ dd_pc # "idle" /\ NextDedup
    \/ ent_pc # "idle" /\ NextFetch
SpecStages == InitStages /\ [][NextStages]_vars

InitProject ==
    /\ ProjectInit /\ DedupIdle /\ ClientIdle /\ FetchIdle /\ RunIdle
    /\ CandidatesIdle /\ CleanIdle /\ PrefetchIdle
    /\ ConfigIdle
    /\ SelectionIdle
SpecProject == InitProject /\ [][NextProject]_vars

InitCandidates ==
    /\ CandidatesInit /\ DedupIdle /\ ClientIdle /\ FetchIdle /\ RunIdle
    /\ ProjectIdle /\ CleanIdle /\ PrefetchIdle
    /\ ConfigIdle
    /\ SelectionIdle
SpecCandidates == InitCandidates /\ [][NextCandidates]_vars

InitClean ==
    /\ CleanInit /\ DedupIdle /\ ClientIdle /\ FetchIdle /\ RunIdle
    /\ ProjectIdle /\ CandidatesIdle /\ PrefetchIdle
    /\ ConfigIdle
    /\ SelectionIdle
SpecClean == InitClean /\ [][NextClean]_vars

InitPrefetch ==
    /\ PrefetchInit /\ ClientIdle /\ FetchIdle /\ RunIdle /\ ProjectIdle
    /\ CandidatesIdle /\ CleanIdle /\ DedupIdle
    /\ ConfigIdle
    /\ SelectionIdle
SpecPrefetch == InitPrefetch /\ [][NextPrefetch]_vars

InitConfig ==
    /\ ConfigInit /\ ClientIdle /\ FetchIdle /\ RunIdle /\ ProjectIdle
    /\ CandidatesIdle /\ CleanIdle /\ PrefetchIdle /\ DedupIdle
    /\ SelectionIdle
SpecConfig == InitConfig /\ [][NextConfig]_vars

InitSelection ==
    /\ SelectionInit /\ ClientIdle /\ FetchIdle /\ RunIdle /\ ProjectIdle
    /\ CandidatesIdle /\ CleanIdle /\ PrefetchIdle /\ ConfigIdle
    /\ DedupIdle
SpecSelection == InitSelection /\ [][NextSelection]_vars

-----------------------------------------------------------------------------
(* The merge: claims *)


\* the rows of the input that belong to work id
RowsOf(id) == {i \in 1..Len(all_publications) : all_publications[i].id = id}

\* the institution labels stamped on work id, as the merge reads them
InstitutionLabelsOf(id) ==
    {Strip(all_publications[i].institutions_extracted) : i \in RowsOf(id)}
        \ {EmptyStr}

AuthorLabelsOf(id) ==
    {Strip(all_publications[i].authors_extracted) : i \in RowsOf(id)} \ {EmptyStr}

\* the position recorded for a label of work id: that of the first row of the
\* label with a non-empty position, the empty string when there is none
RecordedPosition(id, label) ==
    LET hits == {i \in RowsOf(id) :
                    /\ Strip(all_publications[i].authors_extracted) = label
                    /\ Strip(all_publications[i].position_extracted) # EmptyStr}
    IN  IF hits = {} THEN EmptyStr
        ELSE Strip(all_publications[CHOOSE i \in hits : \A j \in hits : i <= j]
                      .position_extracted)

Ascending(list) == \A i \in 1..(Len(list) - 1) : StrLess(list[i], list[i + 1])

\* C1: the output of deduplicate_publications_optimized holds exactly one
\* merged row for each distinct non-empty work id of the input, and no two
\* output rows share an id.
C1_OneRowPerWork ==
    dd_pc = "done" =>
        /\ {dd_result[i].id : i \in 1..Len(dd_result)}
              = {all_publications[i].id : i \in 1..Len(all_publications)} \ {EmptyStr}
        /\ \A i, j \in 1..Len(dd_result) :
              dd_result[i].id = dd_result[j].id => i = j

\* two rows of one work, a row of another work: two merged rows
C1_Witness ==
    /\ dd_pc = "done"
    /\ Len(all_publications) = 3
    /\ all_publications[1].id = W1
    /\ all_publications[2].id = W2
    /\ all_publications[3].id = W1
    /\ Len(dd_result) = 2

\* C2: in every merged row authors_extracted and position_extracted split
\* into the same number of pieces, the author labels are in ascending order,
\* they are the labels stamped on the work, and the i-th position is the one
\* recorded for the i-th label.
C2_PositionsAligned ==
    dd_pc = "done" =>
        \A k \in 1..Len(dd_result) :
            LET r == dd_result[k]
                authors == Split(r.authors_extracted, PipeSep)
                positions == Split(r.position_extracted, PipeSep)
            IN  /\ Len(authors) = Len(positions)
                /\ Ascending(authors)
                /\ Range(authors) \ {EmptyStr} = AuthorLabelsOf(r.id)
                /\ \A i \in 1..Len(authors) :
                      positions[i] = RecordedPosition(r.id, authors[i])

\* author y is read before author x, x first without a position: the row lists
\* x before y and their positions in that order
C2_Witness ==
    /\ dd_pc = "done"
    /\ all_publications
          = <<AuthorRow(W1, LabelY, Middle), AuthorRow(W1, LabelX, EmptyStr),
              AuthorRow(W1, LabelX, Last)>>
    /\ Len(dd_result) = 1
    /\ dd_result[1].authors_extracted = LabelX \o PipeSep \o LabelY
    /\ dd_result[1].position_extracted = Last \o PipeSep \o Middle

\* C3: the merged row of a work lists the labels of the institutions that
\* stamped its rows in ascending order, each label exactly once, also when
\* two rows carry the same label.
C3_InstitutionsUnion ==
    dd_pc = "done" =>
        \A k \in 1..Len(dd_result) :
            LET r == dd_result[k]
                labels == Split(r.institutions_extracted, PipeSep)
            IN  /\ Ascending(labels)
                /\ Range(labels) \ {EmptyStr} = InstitutionLabelsOf(r.id)
                /\ InstitutionLabelsOf(r.id) = {}
                      => r.institutions_extracted = EmptyStr

\* B, then A, then B again on one work: "a | b"
C3_Witness ==
    /\ dd_pc = "done"
    /\ all_publications
          = <<InstitutionRow(W1, LabelB), InstitutionRow(W1, LabelA),
              InstitutionRow(W1, LabelB)>>
    /\ Len(dd_result) = 1
    /\ dd_result[1].institutions_extracted = LabelA \o PipeSep \o LabelB

\* what the merge gives each work: its id and the three merged fields
Extracted(rows) ==
    {[id |-> rows[i].id,
      institutions_extracted |-> rows[i].institutions_extracted,
      authors_extracted |-> rows[i].authors_extracted,
      position_extracted |-> rows[i].position_extracted] : i \in 1..Len(rows)}

\* the rows in another order
Reordered(rows, p) == [i \in 1..Len(rows) |-> rows[p[i]]]

\* C16: the merge of the rows in any other order gives every work the same
\* institutions_extracted, authors_extracted and position_extracted
C16_OrderIndependent ==
    dd_pc = "done" =>
        \A p \in Permutations(1..Len(all_publications)) :
            Extracted(deduplicate_publications_optimized(
                          Reordered(all_publications, p)))
                = Extracted(dd_result)

-----------------------------------------------------------------------------
(* The HTTP client: claims *)

\* C9: every pass of a thread through the limiter (the stamp of line 68,
\* which precedes each HTTP attempt) comes at least the delay of the call
\* after the previous pass of any thread, so that N attempts take at least
\* (N - 1) delays.
C9_LimiterSpacing ==
    [][\A t \in Threads :
          (th[t].pc = "throttle" /\ th'[t].pc = "send") => elapsed >= th[t].delay]_vars

\* a retrying thread waits for the lock while another one, which found the
\* previous pass too recent, has slept in the throttle step for the rest
C9_Witness ==
    \E t, u \in Threads :
        /\ t # u
        /\ th[t].pc = "throttle"
        /\ rate_lock = t
        /\ th[t].left = 0
        /\ elapsed = th[t].delay
        /\ th[u].pc = "acquire"
        /\ th[u].attempts >= 1

\* the server has answered 429 to every attempt of the call so far
AllAnswers429(c) ==
    /\ c.attempts >= 1
    /\ c.attempts = c.retries
    /\ c.transient = {"429"}

\* C10 (as amended): against a server that answers 429 to every attempt, a
\* call makes exactly max_retries + 1 = 4 attempts and returns after the
\* fourth; no call makes a fifth attempt, and a call that has not returned
\* can always go on.
C10_FourAttempts ==
    \A t \in Threads :
        /\ th[t].attempts <= MAX_RETRIES + 1
        /\ AllAnswers429(th[t]) =>
              IF th[t].attempts = MAX_RETRIES + 1
              THEN th[t].pc = "done" /\ th[t].result = "429"
              ELSE th[t].pc \in {"backoff", "acquire", "throttle", "send"}
        /\ th[t].pc \notin {"idle", "done"} => ENABLED NextClient

C10_Witness ==
    \E t \in Threads :
        /\ th[t].pc = "done"
        /\ AllAnswers429(th[t])
        /\ th[t].attempts = 4

\* C10 as stated: five attempts against a server that always answers 429
C10_FiveAttempts ==
    \A t \in Threads :
        (th[t].pc = "done" /\ AllAnswers429(th[t])) => th[t].attempts = 5

\* every attempt of the call failed transiently and the retries are used up
Exhausted(c) ==
    /\ c.pc = "done"
    /\ c.attempts = c.retries
    /\ c.retries = MAX_RETRIES + 1

C12_OtherStatusReturned ==
    [][\A t \in Threads :
          (/\ th'[t].attempts = th[t].attempts + 1
           /\ th'[t].last \notin {"200", "429", NetError}) =>
             /\ th'[t].pc = "done"
             /\ th'[t].result = th'[t].last
             /\ th'[t].retries = th[t].retries
             /\ th'[t].backoff = th[t].backoff
             /\ th'[t].left = 0]_vars

\* a 503 came after three retries
C12_Witness ==
    \E t \in Threads :
        /\ th[t].pc = "done"
        /\ th[t].result = "503"
        /\ th[t].retries = MAX_RETRIES
        /\ th[t].attempts = MAX_RETRIES + 1

\* C27: every attempt of a call, the first and each retry, comes after a
\* pass of its own through the limiter: a thread that is about to send has
\* passed once more than it has sent, and at any other place as often
C27_PassPerAttempt ==
    \A t \in Threads :
        /\ th[t].pc = "send" => th[t].passes = th[t].attempts + 1
        /\ th[t].pc # "send" => th[t].passes = th[t].attempts

\* a call that was retried after a 429 and after a network error and has
\* passed the limiter before each of its four attempts
C27_Witness ==
    \E t \in Threads :
        /\ th[t].pc = "done"
        /\ th[t].transient = {"429", NetError}
        /\ th[t].attempts = MAX_RETRIES + 1
        /\ th[t].passes = MAX_RETRIES + 1

\* the backoff of the k-th retry of a call: 2 s, doubled k - 1 times
BackoffOf(k) == RETRY_AFTER_429 * 2^(k - 1)

\* C28 (as the code has it): a thread that sleeps before its k-th retry
\* sleeps 2 * 2^(k-1) s after a network error and at least half of that,
\* but less than that, after a 429; every call starts at 2 s again, and
\* with three retries at most no wait is longer than 8 s
C28_BackoffWaits ==
    \A t \in Threads :
        th[t].pc = "backoff" =>
            LET k == th[t].retries
            IN  /\ k \in 1..MAX_RETRIES
                /\ th[t].backoff = BackoffOf(k)
                /\ th[t].last = NetError => th[t].wait = BackoffOf(k)
                /\ th[t].last = "429" =>
                      /\ 2 * th[t].wait >= BackoffOf(k)
                      /\ th[t].wait < BackoffOf(k)

\* two calls at a time: one sleeps before its third retry, after a 429, for
\* less than 8 s, the other before its first, after a network error, for 2 s
C28_Witness ==
    \E t, u \in Threads :
        /\ th[t].pc = "backoff" /\ th[t].retries = MAX_RETRIES
        /\ th[t].last = "429" /\ th[t].wait < 4 * RETRY_AFTER_429
        /\ th[u].pc = "backoff" /\ th[u].retries = 1
        /\ th[u].last = NetError /\ th[u].wait = RETRY_AFTER_429

\* C28 (as the spec has it): the wait before the k-th retry is
\* min(2 * 2^(k-1), 16) s, after a 429 and after a network error alike
C28_SameWaits ==
    \A t \in Threads :
        th[t].pc = "backoff" =>
            th[t].wait = Min(BackoffOf(th[t].retries), 8 * RETRY_AFTER_429)

InThrottle == {t \in Threads : th[t].pc = "throttle"}

\* C29: at most one thread is in the throttle step, sleeping or not, and it
\* is the one that holds the lock; a thread reads the limiter state (it
\* enters the throttle step) only by taking the free lock, and writes it (it
\* stamps) only while it holds the lock, which it then releases
C29_LimiterUnderLock ==
    /\ [](/\ Cardinality(InThrottle) <= 1
          /\ \A t \in Threads : th[t].pc = "throttle" <=> rate_lock = t)
    /\ [][\A t \in Threads :
             /\ (th[t].pc # "throttle" /\ th'[t].pc = "throttle") =>
                    rate_lock = 0 /\ rate_lock' = t
             /\ (th'[t].passes # th[t].passes \/ (elapsed' = 0 /\ elapsed # 0)) =>
                    \E u \in Threads :
                        /\ rate_lock = u /\ th[u].pc = "throttle"
                        /\ th'[u].passes = th[u].passes + 1
                        /\ rate_lock' = 0]_vars

\* a thread sleeps in the throttle step and holds the lock, after the
\* stamp of another thread, which is about to send
C29_Witness ==
    \E t, u \in Threads :
        /\ th[t].pc = "throttle" /\ th[t].left > 0 /\ rate_lock = t
        /\ th[u].pc = "send" /\ th[u].passes = 1

-----------------------------------------------------------------------------
(* The page streams of an entity: claims *)

RECURSIVE RowCount(_)
RowCount(batches) ==
    IF batches = <<>> THEN 0
    ELSE Head(batches).last - Head(batches).first + 1 + RowCount(Tail(batches))

Returned(s) == st[s].pc \in {"done", "collected"}

AllPagesOk(s) == \A i \in 1..Len(st[s].requests) : st[s].requests[i].ok

FailedAt(s, i) == i \in 1..Len(st[s].requests) /\ ~st[s].requests[i].ok

\* the pages the server holds for a stream: at least one, the last of which
\* ends the results
ServerPages(s) == Max(1, (srv_total[s] + PER_PAGE - 1) \div PER_PAGE)

\* the rows of a logged page request
PageRows(s, r) == process_publications_batch(ServerPage(s, r.params))

\* the requests that succeeded and brought rows, in request order
OkPages(s) ==
    SelectSeq(st[s].requests, LAMBDA r : r.ok /\ PageRows(s, r) # <<>>)

\* C4: a stream that returns after requests that all succeeded returns one
\* row per work that matches its filter, whatever their number
C4_AllRowsReturned ==
    \A s \in DOMAIN st :
        (Returned(s) /\ AllPagesOk(s)) => RowCount(st[s].publications) = srv_total[s]

\* C5: against a server that never fails a stream sends as many requests as
\* the server has pages, the first with the start cursor "*" and each later
\* one with the cursor the previous response gave, and returns the rows of
\* these pages in order
C5_CursorRequests ==
    \A s \in DOMAIN st :
        /\ \A i \in 1..Len(st[s].requests) :
              LET params == st[s].requests[i].params
              IN  /\ "cursor" \in DOMAIN params
                  /\ params["cursor"] = IF i = 1 THEN "*"
                                        ELSE st[s].requests[i - 1].next_cursor
        /\ (Returned(s) /\ AllPagesOk(s)) =>
              /\ Len(st[s].requests) = ServerPages(s)
              /\ RowCount(st[s].publications) = srv_total[s]

\* C6: a page request that failed is the last request of its stream
C6_NoRequestAfterFailure ==
    \A s \in DOMAIN st :
        \A i \in 1..Len(st[s].requests) : FailedAt(s, i) => i = Len(st[s].requests)

\* C7: a stream holds the rows of every page it fetched successfully, a
\* failed page request notwithstanding; the fetch of the entity is never
\* stopped short of its return (some stream can start, request, return or
\* be collected, or all are collected and the rows are returned), and what
\* it returns has every row of every stream
C7_FailureKeepsRows ==
    /\ \A s \in DOMAIN st :
          LET kept == OkPages(s)
          IN  /\ Len(st[s].publications) = Len(kept)
              /\ \A k \in 1..Len(kept) :
                    <<st[s].publications[k]>> = PageRows(s, kept[k])
    /\ ent_pc = "fetching" =>
          \/ \E s \in DOMAIN st : MayStart(s) \/ st[s].pc \in {"first", "pages", "done"}
          \/ \A s \in DOMAIN st : st[s].pc = "collected"
    /\ ent_pc = "done" =>
          LET ids == {ent_unique[i].id : i \in 1..Len(ent_unique)}
          IN  \A s \in DOMAIN st :
                 \A k \in 1..Len(st[s].publications) :
                    \A x \in st[s].publications[k].first..st[s].publications[k].last :
                       x \in ids

\* a stream lost its second page after it had the first, another stream
\* has rows, and the entity's fetch has returned
C7_Witness ==
    /\ ent_pc = "done"
    /\ \E s \in DOMAIN st, u \in DOMAIN st :
          /\ s # u
          /\ st[s].requests[1].ok
          /\ FailedAt(s, 2)
          /\ st[s].publications # <<>>
          /\ st[u].publications # <<>>
          /\ AllPagesOk(u)

\* the batches collected before the k-th that share an id with it
EarlierOverlapping(k) ==
    {j \in 1..(k - 1) :
        /\ ent_pubs[j].first <= ent_pubs[k].last
        /\ ent_pubs[k].first <= ent_pubs[j].last}

\* C13: the list fetch_publications_parallel returns has no two rows of one
\* id, has a row for every id of every stream, and the row it has for an id
\* is the first of that id in the concatenation of the streams' lists
C13_FirstRowPerId ==
    ent_pc = "done" =>
        LET ids == {ent_unique[i].id : i \in 1..Len(ent_unique)}
        IN  /\ Cardinality(ids) = Len(ent_unique)
            /\ \A c \in DOMAIN st :
                  \* the ids of the rows returned that were made of copy c
                  LET kept == {ent_unique[i].id :
                                  i \in {n \in 1..Len(ent_unique) :
                                            ent_unique[n].copy = c}}
                  IN  \A k \in {n \in 1..Len(ent_pubs) : ent_pubs[n].copy = c} :
                         LET b == ent_pubs[k]
                             earlier == EarlierOverlapping(k)
                         IN  \A x \in b.first..b.last :
                                IF \A j \in earlier :
                                      x < ent_pubs[j].first \/ x > ent_pubs[j].last
                                THEN x \in kept
                                ELSE x \in ids
            /\ \A s \in DOMAIN st :
                  \A k \in 1..Len(st[s].publications) :
                     \E j \in 1..Len(ent_pubs) : ent_pubs[j] = st[s].publications[k]

\* two streams returned rows of the same works, and the list returned has
\* them once
C13_Witness ==
    /\ ent_pc = "done"
    /\ \E k \in 1..Len(ent_pubs) : EarlierOverlapping(k) # {}
    /\ \E i \in 1..Len(ent_unique) : ent_unique[i].copy # ent_unique[1].copy

\* the filter strings generated so far: those of the streams that were
\* entered and those of the page requests that were sent
FilterStrings ==
    {st[s].filter_str : s \in {u \in DOMAIN st : st[u].pc # "ready"}}
    \cup UNION {{st[s].requests[i].params["filter"] : i \in 1..Len(st[s].requests)} :
                   s \in DOMAIN st}

HasPredicate(filter_str, key, value) ==
    \E i \in 1..Len(filter_str) : filter_str[i] = [key |-> key, value |-> value]

TypePredicates(filter_str) ==
    {i \in 1..Len(filter_str) : filter_str[i].key = "type"}

\* C14: every filter string has the predicate language:en when the language
\* chosen is English Only, and none has it when it is All Languages
C14_LanguagePredicate ==
    \A f \in FilterStrings :
        HasPredicate(f, "language", "en") <=> cfg.language = "English Only"

\* the streams of several document types have sent their requests, later
\* pages included, for English only
C14_Witness ==
    /\ cfg.language = "English Only"
    /\ ent_pc = "done"
    /\ Len(cfg.doc_types) >= 2
    /\ \E s \in DOMAIN st : Len(st[s].requests) >= 2

\* C15: with document types, the streams that run are one per type, each
\* with the predicate type:<its type> in the filter of all its requests and
\* no other type predicate; without, one stream runs and its filter has no
\* type predicate
C15_StreamPerType ==
    /\ \A s \in DOMAIN st :
          /\ \A i \in 1..Len(st[s].requests) :
                st[s].requests[i].params["filter"] = st[s].filter_str
          /\ st[s].pc # "ready" =>
                IF cfg.doc_types = <<>>
                THEN TypePredicates(st[s].filter_str) = {}
                ELSE /\ Cardinality(TypePredicates(st[s].filter_str)) = 1
                     /\ \E d \in Range(cfg.doc_types) :
                           HasPredicate(st[s].filter_str, "type", d)
    /\ cfg.doc_types = <<>> => Cardinality(DOMAIN st) <= 1
    /\ ent_pc = "done" =>
          /\ \A s \in DOMAIN st : Len(st[s].requests) >= 1
          /\ \A d \in Range(cfg.doc_types) :
                Cardinality({s \in DOMAIN st :
                                HasPredicate(st[s].filter_str, "type", d)}) = 1
          /\ cfg.doc_types # <<>> =>
                Cardinality(DOMAIN st) = Cardinality(Range(cfg.doc_types))

\* a fetch for two document types has returned
C15_Witness ==
    /\ ent_pc = "done"
    /\ Len(cfg.doc_types) = 2
    /\ \A s \in DOMAIN st : st[s].publications # <<>>

\* C26: when callbacks are given, the streams of the entity run one after
\* the other: at most one stream is between its start and its return, which
\* is where fetch_single_doc_type calls request_callback and page_callback,
\* and a stream starts only when those before it were collected
C26_CallbacksNotConcurrent ==
    cfg.callbacks =>
        /\ Cardinality(Running) <= 1
        /\ \A s \in DOMAIN st :
              st[s].pc \in {"first", "pages"} =>
                 \A u \in DOMAIN st : u < s => st[u].pc = "collected"

\* callbacks are given for two document types: the second stream is running
\* and has made a request, after the first, which made one too
C26_Witness ==
    /\ cfg.callbacks
    /\ Len(cfg.doc_types) >= 2
    /\ st[1].pc = "collected" /\ st[1].requests # <<>>
    /\ st[2].pc = "pages" /\ st[2].requests # <<>>

\* C30: no two threads are at an HTTP attempt on the same session: two
\* streams that are both between their start and their return, each in
\* its thread of the pool and with a page request as its next step, have
\* sessions of their own
C30_SessionPerThread ==
    \A s, u \in DOMAIN st :
        (/\ s # u
         /\ st[s].pc \in {"first", "pages"}
         /\ st[u].pc \in {"first", "pages"}) =>
            st[s].session # st[u].session

-----------------------------------------------------------------------------
(* The record projector: claims *)

POSITIONS == {"First", "Middle", "Last", "Not found"}

\* C17: every row of the projector has the entity's label in
\* institutions_extracted for an institution and in authors_extracted for an
\* author, the other of the two empty, and position_extracted empty for an
\* institution and one of First, Middle, Last, Not found for an author
C17_EntityStamp ==
    \A k \in 1..Len(pj_publications) :
        LET row == pj_publications[k]
        IN  IF pj_entity.type = "institution"
            THEN /\ row["institutions_extracted"] = pj_entity.name
                 /\ row["authors_extracted"] = ""
                 /\ row["position_extracted"] = ""
            ELSE /\ row["authors_extracted"] = pj_entity.name
                 /\ row["institutions_extracted"] = ""
                 /\ row["position_extracted"] \in POSITIONS

\* a page of an author entity whose rows have two different positions
C17_Witness ==
    /\ pj_pc = "returned"
    /\ pj_entity.type = "author"
    /\ \E j, k \in 1..Len(pj_publications) :
          pj_publications[j]["position_extracted"]
             # pj_publications[k]["position_extracted"]

\* C18: the projector does not raise, whatever the record, and returns a row
\* for every record of the page
C18_NeverRaises ==
    /\ pj_pc # "raised"
    /\ pj_pc = "returned" => Len(pj_publications) = Len(pj_results)

\* the ids of the authorships of a record, lower-cased
AuthorIdsOf(pub) ==
    [i \in 1..Len(pub.authorships.v) |-> Lower(pub.authorships.v[i].author.v.id.v)]

\* the authorships of a record are a list of authors that have an id each
HasAuthorIds(pub) ==
    /\ pub.authorships.kind = "list"
    /\ \A i \in 1..Len(pub.authorships.v) :
          /\ pub.authorships.v[i].author.kind = "dict"
          /\ pub.authorships.v[i].author.v.id.kind = "str"

\* the position the first authorship that matches has in the list
ExpectedPosition(ids, author_id) ==
    LET n == Len(ids)
        matches == {i \in 1..n : EndsWith(ids[i], Lower(author_id))}
    IN  IF matches = {} THEN "Not found"
        ELSE LET i == CHOOSE m \in matches : \A o \in matches : m <= o
             IN  IF i = 1 THEN "First"
                 ELSE IF i = n THEN "Last"
                 ELSE "Middle"

\* C19: the position in the row of an author entity is that of the first
\* authorship whose author id ends with the lower-cased id of the entity:
\* First for the first of the list, Last for the last when it is not also
\* the first, Middle in between, Not found when none matches
C19_PositionByIndex ==
    pj_entity.type = "author" =>
        \A k \in 1..Len(pj_publications) :
            HasAuthorIds(pj_results[k]) =>
                pj_publications[k]["position_extracted"]
                    = ExpectedPosition(AuthorIdsOf(pj_results[k]), pj_entity.id)

\* the author is second and third of three: Middle, by the first match
C19_Witness ==
    /\ pj_pc = "returned"
    /\ pj_entity.id = <<"A", "1">>
    /\ \E k \in 1..Len(pj_publications) :
          /\ HasAuthorIds(pj_results[k])
          /\ AuthorIdsOf(pj_results[k])
                = <<Lower(AuthorA2), Lower(AuthorA1), Lower(AuthorA1)>>
          /\ pj_publications[k]["position_extracted"] = "Middle"

\* C24: the formatters are total. For every record of the page that the
\* loop has come to, with authorships absent, null or a list,
\* format_authors_simple,
\* extract_author_position and format_abstract_optimized return a string
\* and do not raise, and format_authors_simple returns "" for authorships
\* that are absent, null or empty
C24_FormattersTotal ==
    \A i \in DOMAIN pj_results :
        LET pub == pj_results[i]
            authorships == Get(pub, "authorships", List(<<>>))
            names == format_authors_simple(authorships)
            position == extract_author_position(pub, pj_entity.id)
            abstract == format_abstract_optimized(
                            Get(pub, "abstract_inverted_index", Dict([w \in {} |-> Null])))
        IN  (/\ authorships.kind \in {"null", "list"}
             /\ i < pj_idx \/ (i = pj_idx /\ pj_pc = "raised")) =>
               /\ names.raised = "none"
               /\ position.raised = "none"
               /\ abstract.raised = "none"
               /\ Falsy(authorships) => names.value = <<>>

-----------------------------------------------------------------------------
(* The candidates of a name: claims *)

\* the id of the candidate built from the result of the i-th rank
RankId(i) == <<"A", ToString(i)>>

RankOf(candidate) == CHOOSE i \in 1..MaxResults : RankId(i) = candidate.id

\* the results of the response that was given, in the order of the API
SearchResults ==
    IF cd_answer.status = "200" /\ cd_answer.body = "json"
       /\ cd_answer.results.kind = "list"
    THEN cd_answer.results.v
    ELSE <<>>

\* how many of the first 20 results come before one that is no object
UsableResults ==
    LET n == Min(CANDIDATE_CAP, Len(SearchResults))
        broken == {i \in 1..n : SearchResults[i].kind # "dict"}
    IN  IF broken = {} THEN n
        ELSE (CHOOSE i \in broken : \A j \in broken : i <= j) - 1

WorksCountOf(result) ==
    IF result.v.works_count.kind = "num" THEN result.v.works_count.v ELSE 0

\* C20 (as the code has it): the candidates returned for a name are at most
\* 20, one for each of the first 20 results of the response (of those before
\* the first result that is no object, if there is one), with the
\* works_count of its result; they are returned by works_count, largest
\* first, and those of equal works_count in the order of the API
C20_CandidatesByWorksCount ==
    cd_pc = "returned" =>
        /\ Len(cd_candidates) <= CANDIDATE_CAP
        /\ Len(cd_candidates) = UsableResults
        /\ {cd_candidates[i].id : i \in 1..Len(cd_candidates)}
              = {RankId(i) : i \in 1..UsableResults}
        /\ \A i \in 1..Len(cd_candidates) :
              cd_candidates[i].works_count
                 = WorksCountOf(SearchResults[RankOf(cd_candidates[i])])
        /\ \A i, j \in 1..Len(cd_candidates) :
              i < j =>
                 \/ cd_candidates[i].works_count > cd_candidates[j].works_count
                 \/ /\ cd_candidates[i].works_count = cd_candidates[j].works_count
                    /\ RankOf(cd_candidates[i]) < RankOf(cd_candidates[j])

\* more than 20 results, all of them objects: 20 candidates are returned,
\* the first of them is not the first of the API, and two of equal
\* works_count are among them
C20_Witness ==
    /\ cd_pc = "returned"
    /\ Len(SearchResults) > CANDIDATE_CAP
    /\ Len(cd_candidates) = CANDIDATE_CAP
    /\ cd_candidates[1].id # RankId(1)
    /\ \E i \in 1..(CANDIDATE_CAP - 1) :
          /\ cd_candidates[i].works_count = cd_candidates[i + 1].works_count
          /\ RankOf(cd_candidates[i]) < RankOf(cd_candidates[i + 1])

\* C20 (as the spec has it): when the results are objects, the candidates
\* returned are the first 20 results, in the order of the API
C20_ApiOrder ==
    (cd_pc = "returned" /\ \A i \in 1..Len(SearchResults) : SearchResults[i].kind = "dict") =>
        /\ Len(cd_candidates) = Min(CANDIDATE_CAP, Len(SearchResults))
        /\ \A i \in 1..Len(cd_candidates) : cd_candidates[i].id = RankId(i)

-----------------------------------------------------------------------------
(* The run over the selected entities: claims *)

\* C8: an entity whose fetch raises does not abort the run: the run does not
\* end with the exception, and the rows of the entities whose fetch returned
\* are merged and exported
C8_RunNotAborted ==
    /\ run_pc # "aborted"
    /\ (run_pc \in {"exported", "nothing found"}) =>
          \A e \in DOMAIN jobs :
             jobs[e].raised = "none" =>
                \A k \in 1..Len(jobs[e].pubs) :
                   \E i \in 1..Len(run_result) : run_result[i] = jobs[e].pubs[k]

RunEnded == run_pc \in {"rejected", "aborted", "nothing found", "exported"}

\* C21: a run that is started with no entity, or with start_year after
\* end_year, is rejected before anything else is done: no job is started
\* (so no session is created and no request is sent) and set_rate_limit is
\* not called
C21_RejectedUntouched ==
    (run_pc # "idle" /\ (run_cfg.entities = 0 \/ run_cfg.start_year > run_cfg.end_year)) =>
        /\ run_pc \in {"start", "rejected"}
        /\ run_limiter = "default"
        /\ \A e \in DOMAIN jobs : jobs[e] = JobIdle
        /\ run_pubs = <<>> /\ run_result = <<>>

\* a run over entities that is rejected for its years
C21_Witness ==
    /\ run_pc = "rejected"
    /\ run_cfg.entities = MaxEntities
    /\ run_cfg.start_year > run_cfg.end_year
    /\ run_limiter = "default"

\* C22: the session of a job is closed when the job has ended, and no
\* session is open when the run has ended
C22_SessionsClosed ==
    /\ \A e \in DOMAIN jobs :
          /\ jobs[e].pc = "done" => jobs[e].session = "closed"
          /\ jobs[e].session = "open" => jobs[e].pc \in {"running", "closing"}
    /\ RunEnded => \A e \in DOMAIN jobs : jobs[e].session # "open"

\* a run has ended, every entity had its session and a job that raised
\* has its session closed
C22_Witness ==
    /\ RunEnded
    /\ Len(jobs) = MaxEntities
    /\ \A e \in DOMAIN jobs : jobs[e].session = "closed"
    /\ \E e \in DOMAIN jobs : jobs[e].raised # "none"

\* C23: a run that was started (it passed the checks and submitted its
\* jobs) comes to its end with every job ended and the merge step reached:
\* it exports the merged rows or finds that there is none
C23_RunFinishes ==
    (run_pc = "pool") ~>
        (/\ run_pc \in {"exported", "nothing found"}
         /\ \A e \in DOMAIN jobs : jobs[e].pc = "done")

-----------------------------------------------------------------------------
(* clean_text_field: claims *)

\* C25: clean_text_field is idempotent: called on what it returned for a
\* text, it returns the same again
C25_CleanIdempotent == Len(ct_out) = 2 => ct_out[2] = ct_out[1]

\* a text with a control character and a line break between two words
\* was cleaned twice; the first call made one space of the two
C25_Witness ==
    /\ Len(ct_out) = 2
    /\ ct_text.kind = "str"
    /\ {0, 10, 97} \subseteq Range(ct_text.v)
    /\ ct_out[1] = Str(<<97, 32, 97>>)
    /\ ct_out[2] = ct_out[1]

-----------------------------------------------------------------------------
(* The prefetch of candidates: claims *)

\* C31: no two jobs of the prefetch that are fetching at the same time use
\* the same session of the pool
C31_SessionPerJob ==
    \A i, j \in DOMAIN pf_jobs :
        (i # j /\ pf_jobs[i].pc = "fetching" /\ pf_jobs[j].pc = "fetching") =>
            pf_jobs[i].session # pf_jobs[j].session

-----------------------------------------------------------------------------
(* The pools of a run: claims *)

\* C32: every job that has started has a session, and no two jobs of a run
\* have the same, whether they ran side by side or one after the other
C32_SessionPerEntity ==
    /\ \A e \in DOMAIN jobs : jobs[e].pc # "queued" <=> jobs[e].sid # 0
    /\ \A e, u \in DOMAIN jobs :
          (e # u /\ jobs[e].sid # 0 /\ jobs[u].sid # 0) =>
              jobs[e].sid # jobs[u].sid

\* three jobs have their sessions: one has ended, and on a pool of two
\* threads the two others run side by side
C32_Witness ==
    /\ Len(jobs) = MaxEntities
    /\ run_cfg.parallel_entities = 2
    /\ jobs[1].pc = "done"
    /\ jobs[2].pc = "running" /\ jobs[3].pc = "running"
    /\ Cardinality({jobs[e].sid : e \in DOMAIN jobs}) = MaxEntities

JobsInProgress == {e \in DOMAIN jobs : jobs[e].pc \in {"running", "closing"}}

StreamsInProgress == {s \in DOMAIN st : st[s].pc \in {"first", "pages"}}

C34_MergeAfterJoin ==
    /\ ent_pc = "done" =>
          \A s \in DOMAIN st : st[s].pc = "collected"
    /\ run_pc \in {"aborted", "nothing found", "exported"} =>
          \A e \in DOMAIN jobs : jobs[e].pc = "done"

\* the rows of three streams of more than one page are merged
C34_Witness ==
    /\ ent_pc = "done"
    /\ Len(cfg.doc_types) = 3
    /\ \A s \in DOMAIN st : Len(st[s].requests) > 1
    /\ ent_unique # <<>>

-----------------------------------------------------------------------------
(* The callbacks of a stream: claims *)

\* C35: when a page request of a stream is over, request_callback has been
\* invoked once for each HTTP attempt the request made, retries included
C35_CallbackPerAttempt ==
    \A t \in Threads :
        th[t].pc = "reported" => Len(th[t].callbacks) = th[t].attempts

-----------------------------------------------------------------------------
(* The key of the two merges: claims *)

SelectsId(c) ==
    \E i \in DOMAIN c.selected_metadata : c.selected_metadata[i] = "id"

\* C36: neither the rows an entity's fetch returns nor the rows of the
\* merge across entities hold a row without id or with an empty one, and
\* a fetch for fields without the id returns no row
C36_NoRowWithoutId ==
    /\ dd_pc = "done" =>
          \A i \in 1..Len(dd_result) : dd_result[i].id # EmptyStr
    /\ ent_pc = "done" =>
          /\ \A i \in 1..Len(ent_unique) : ent_unique[i].keyed
          /\ ~SelectsId(cfg) => ent_unique = <<>>

\* the server gave the rows of two document types, and none is returned
C36_Witness ==
    /\ ent_pc = "done"
    /\ ~SelectsId(cfg)
    /\ Len(ent_pubs) >= 2
    /\ ent_unique = <<>>

-----------------------------------------------------------------------------
(* The configuration form: claims *)

\* C38: the stored configuration has start_year <= end_year whatever was
\* submitted, and a submission with a start year after the end year leaves
\* the stored configuration as it was
C38_YearsInOrder ==
    /\ [](cf_msg # "idle" => cf_config.start_year <= cf_config.end_year)
    /\ [][cf_form'.cfg_start_year > cf_form'.cfg_end_year
            => cf_config' = cf_config]_vars

\* a configuration was applied, and a later submission of years out of
\* order was turned down
C38_Witness ==
    /\ cf_msg = "error"
    /\ cf_form.cfg_start_year > cf_form.cfg_end_year
    /\ cf_config # DefaultConfig
    /\ cf_config.doc_types = {"article"}

-----------------------------------------------------------------------------
(* The selection of entities: claims *)

KindOf(mode) == IF mode = "institutions" THEN "institution" ELSE "author"

\* C39: every selected entity is of the kind of the method that is chosen,
\* and no entity is selected while no method is chosen
C39_EntitiesOfTheMode ==
    /\ selection_mode = "None" => selected_entities = <<>>
    /\ selection_mode \in {"institutions", "authors"} =>
          \A i \in DOMAIN selected_entities :
              selected_entities[i].type = KindOf(selection_mode)

\* profiles of two names are confirmed
C39_Witness ==
    /\ selection_mode = "authors"
    /\ Len(selected_entities) >= 2
    /\ \E i, j \in DOMAIN selected_entities :
          selected_entities[i].input_key # selected_entities[j].input_key

\* C40: no two of the selected entities are the same institution
C40_InstitutionsOnce ==
    \A i, j \in DOMAIN selected_entities :
        ( /\ selected_entities[i].type = "institution"
          /\ selected_entities[j].type = "institution"
          /\ selected_entities[i].id = selected_entities[j].id ) => i = j

\* two institutions are selected, the second from a search that shows it
\* on two rows
C40_Witness ==
    /\ selection_mode = "institutions"
    /\ Len(selected_entities) = 2
    /\ Len(results_df) = 2
    /\ results_df[1] = results_df[2]
    /\ selected_entities[2].id = results_df[1]

====
